---- MODULE Spec2Model ----
(***************************************************************************)
(* Verification model of the vibeboard backend core:                       *)
(*   - DominoEngine   (backend/internal/game/dominoes.go)                  *)
(*   - ChessEngine    (the "package game" part of backend/README.md)       *)
(*   - MatchmakingService (backend/internal/lobby/matchmaking.go)          *)
(* Each subsystem has its own specification; the variables of the other    *)
(* subsystems stay at their idle value.                                    *)
(***************************************************************************)
EXTENDS Integers, Sequences, FiniteSets, TLC

VARIABLES
    dom,        \* DominoGameState handed between ValidateMove / ApplyMove calls
    domOrigin,  \* "initialize": produced by Initialize(); "caller": a state supplied through the engine boundary
    domLast,    \* the last accepted domino call: [player, move], or NoCall
    domMoves,   \* number of accepted domino moves so far
    chess,      \* ChessGameState handed between ValidateMove / ApplyMove calls
    chessOrigin,
    chessLast,  \* the last accepted chess call: [player, move, captured], or NoCall
    zset,       \* redis sorted sets: game type -> set of [member, score]
    reqs,       \* redis keys matchmaking:request:<user>: the users that have a key -> payload with expiry
    games,      \* game records persisted by createMatch, in creation order
    now,        \* wall clock, whole seconds
    joinLog,    \* game type -> users in the order their JoinQueue calls added them (removed entries dropped)
    handled,    \* number of JoinQueue / LeaveQueue calls handled so far
    calls,      \* in-flight JoinQueue / LeaveQueue calls: slot -> call record
    mmLast,     \* the last matchmaking step taken
    tickMatches, \* game type -> what the last matching sweep tick did to that queue
    due,         \* the periodic jobs (tickers of Start) that fire before the clock moves on
    sweep,       \* the matching sweep taken one store command at a time: its position and locals
    hub,         \* websocket Hub with its clients: registry, rooms, send buffers, pumps
    hubLast      \* the last hub operation run

domVars == <<dom, domOrigin, domLast, domMoves>>
chessVars == <<chess, chessOrigin, chessLast>>
mmVars == <<zset, reqs, games, now, joinLog, handled, calls, mmLast, tickMatches, due, sweep>>
hubVars == <<hub, hubLast>>
vars == <<dom, domOrigin, domLast, domMoves, chess, chessOrigin, chessLast,
          zset, reqs, games, now, joinLog, handled, calls, mmLast, tickMatches, due, sweep, hub, hubLast>>

(***************************************************************************)
(* Identifiers                                                             *)
(***************************************************************************)
\* uuid.UUID values: NilUUID is the zero value of the type
NilUUID == 0
\* bound: number of non-zero identifiers used as players and callers
NumIDs == 2
UUIDs == 0..NumIDs
\* *uuid.UUID nil pointer (no winner)
NoWinner == -1
NoCall == "nocall"
Idle == "idle"

(***************************************************************************)
(* Sequence helpers                                                        *)
(***************************************************************************)
Range(s) == {s[i] : i \in 1..Len(s)}
RemoveAt(s, i) == SubSeq(s, 1, i - 1) \o SubSeq(s, i + 1, Len(s))
Abs(x) == IF x < 0 THEN -x ELSE x

(***************************************************************************)
(* DominoEngine                                                            *)
(***************************************************************************)
MaxPip == 6
HandSize == 7
Pips == 0..MaxPip
Tile(l, r) == [Left |-> l, Right |-> r]

\* generateDominoSet: for i in 0..6, for j in i..6, in that order
RECURSIVE TilesFrom(_, _)
TilesFrom(i, j) ==
    IF i > MaxPip THEN <<>>
    ELSE IF j > MaxPip THEN TilesFrom(i + 1, i + 1)
    ELSE <<Tile(i, j)>> \o TilesFrom(i, j + 1)
generateDominoSet == TilesFrom(0, 0)
NumTiles == Len(generateDominoSet)

\* rand.Shuffle: some permutation of the set. The shuffles explored are the
\* affine permutations i -> (i * m + k) mod 28 for the multipliers and offsets below.
ShuffleMults == {1, 5, 11}
MaxShuffleOffset == 1
Shuffle(m, k) == [i \in 1..NumTiles |-> generateDominoSet[(((i - 1) * m + k) % NumTiles) + 1]]
Shuffles == {Shuffle(m, k) : m \in ShuffleMults, k \in 0..MaxShuffleOffset}

\* getHighestTileValue
TileValue(t) == t.Left + t.Right + (IF t.Left = t.Right THEN 100 ELSE 0)
RECURSIVE MaxValueFrom(_, _, _)
MaxValueFrom(hand, i, best) ==
    IF i > Len(hand) THEN best
    ELSE MaxValueFrom(hand, i + 1, IF TileValue(hand[i]) > best THEN TileValue(hand[i]) ELSE best)
getHighestTileValue(hand) == MaxValueFrom(hand, 1, -1)

\* determineStartingPlayer
determineStartingPlayer(state) ==
    IF getHighestTileValue(state.PlayerHands[state.Player1ID])
         >= getHighestTileValue(state.PlayerHands[state.Player2ID])
    THEN state.Player1ID
    ELSE state.Player2ID

\* map[uuid.UUID][]DominoTile: a missing key reads as the empty slice
EmptyHands == [u \in UUIDs |-> <<>>]

\* the dealing loop of Initialize: hands[p1] gets shuffled[i], then hands[p2] gets shuffled[i+7]
RECURSIVE Deal(_, _, _, _, _, _)
Deal(hands, p1, p2, shuffled, i, n) ==
    IF i > n THEN hands
    ELSE LET h1 == [hands EXCEPT ![p1] = Append(@, shuffled[i])]
             h2 == [h1 EXCEPT ![p2] = Append(@, shuffled[i + n])]
         IN Deal(h2, p1, p2, shuffled, i + 1, n)

\* The state built from a shuffle for players p1, p2 with hands of n tiles each.
\* The boneyard is shuffled[14:] as in Initialize.
DealtState(p1, p2, shuffled, n, bone) ==
    LET base == [PlayerHands |-> Deal(EmptyHands, p1, p2, shuffled, 1, n),
                 Board |-> <<>>,
                 BoneYard |-> bone,
                 CurrentTurn |-> NilUUID,
                 Player1ID |-> p1,
                 Player2ID |-> p2,
                 GameEnded |-> FALSE,
                 Winner |-> NoWinner]
    IN [base EXCEPT !.CurrentTurn = determineStartingPlayer(base)]

\* DominoEngine.Initialize: Player1ID and Player2ID are never assigned, so both are the zero UUID
Initialize(shuffled) ==
    DealtState(NilUUID, NilUUID, shuffled, HandSize, SubSeq(shuffled, 2 * HandSize + 1, NumTiles))

\* DominoMove inputs
Sides == {"left", "right", "middle"}
DominoMoves == [Tile : [Left : Pips, Right : Pips], Side : Sides, Pass : BOOLEAN]

SameTile(a, b) ==
    \/ (a.Left = b.Left /\ a.Right = b.Right)
    \/ (a.Left = b.Right /\ a.Right = b.Left)

\* canPlayerPlay with the right end of the board forgotten
canPlayerPlayLeftOnly(state, playerID) ==
    IF Len(state.Board) = 0 THEN TRUE
    ELSE \E i \in 1..Len(state.PlayerHands[playerID]) :
            \/ state.PlayerHands[playerID][i].Left = state.Board[1].Left
            \/ state.PlayerHands[playerID][i].Right = state.Board[1].Left

\* canPlayerPlay
canPlayerPlay(state, playerID) ==
    IF Len(state.Board) = 0 THEN TRUE
    ELSE LET hand == state.PlayerHands[playerID]
             leftEnd == state.Board[1].Left
             rightEnd == state.Board[Len(state.Board)].Right
         IN \E i \in 1..Len(hand) :
                \/ hand[i].Left = leftEnd \/ hand[i].Right = leftEnd
                \/ hand[i].Left = rightEnd \/ hand[i].Right = rightEnd

\* validateTilePlacement comparing only the tile's Left value with the exposed end
validateTilePlacementLeftPip(board, tile, side) ==
    IF side = "left"
    THEN IF tile.Left # board[1].Left
         THEN "tile doesn't match left end of board" ELSE "ok"
    ELSE IF side = "right"
    THEN IF tile.Left # board[Len(board)].Right
         THEN "tile doesn't match right end of board" ELSE "ok"
    ELSE "invalid side"

\* validateTilePlacement (board is not empty when it is called): "ok" or the error
validateTilePlacement(board, tile, side) ==
    IF side = "left"
    THEN IF tile.Left # board[1].Left /\ tile.Right # board[1].Left
         THEN "tile doesn't match left end of board" ELSE "ok"
    ELSE IF side = "right"
    THEN IF tile.Left # board[Len(board)].Right /\ tile.Right # board[Len(board)].Right
         THEN "tile doesn't match right end of board" ELSE "ok"
    ELSE "invalid side"

\* DominoEngine.ValidateMove without the check of the ended flag
DominoValidateMoveEndedOpen(state, move, playerID) ==
    IF state.CurrentTurn # playerID THEN "not player's turn"
    ELSE IF move.Pass
    THEN IF canPlayerPlay(state, playerID) THEN "player must play if possible" ELSE "ok"
    ELSE IF ~(\E i \in 1..Len(state.PlayerHands[playerID]) :
                 SameTile(state.PlayerHands[playerID][i], move.Tile))
    THEN "player doesn't have this tile"
    ELSE IF Len(state.Board) = 0 THEN "ok"
    ELSE validateTilePlacement(state.Board, move.Tile, move.Side)

\* DominoEngine.ValidateMove: "ok" for nil, otherwise the error
DominoValidateMove(state, move, playerID) ==
    IF state.CurrentTurn # playerID THEN "not player's turn"
    ELSE IF state.GameEnded THEN "game has already ended"
    ELSE IF move.Pass
    THEN IF canPlayerPlay(state, playerID) THEN "player must play if possible" ELSE "ok"
    ELSE IF ~(\E i \in 1..Len(state.PlayerHands[playerID]) :
                 SameTile(state.PlayerHands[playerID][i], move.Tile))
    THEN "player doesn't have this tile"
    ELSE IF Len(state.Board) = 0 THEN "ok"
    ELSE validateTilePlacement(state.Board, move.Tile, move.Side)

\* getOtherPlayer
getOtherPlayer(state, playerID) ==
    IF playerID = state.Player1ID THEN state.Player2ID ELSE state.Player1ID

\* calculateHandScore
RECURSIVE calculateHandScore(_)
calculateHandScore(hand) ==
    IF hand = <<>> THEN 0
    ELSE Head(hand).Left + Head(hand).Right + calculateHandScore(Tail(hand))

\* determineWinnerByScore
determineWinnerByScore(state) ==
    LET p1Score == calculateHandScore(state.PlayerHands[state.Player1ID])
        p2Score == calculateHandScore(state.PlayerHands[state.Player2ID])
    IN IF p1Score < p2Score THEN state.Player1ID
       ELSE IF p2Score < p1Score THEN state.Player2ID
       ELSE NoWinner

\* placeTileOnBoard without the flip: the tile goes on as submitted
placeTileOnBoardAsGiven(board, tile, side) ==
    IF side = "left" THEN <<tile>> \o board ELSE Append(board, tile)

\* placeTileOnBoard (board not empty): any side other than "left" is treated as the right end
placeTileOnBoard(board, tile, side) ==
    LET flipped == Tile(tile.Right, tile.Left)
    IN IF side = "left"
       THEN IF tile.Right = board[1].Left THEN <<tile>> \o board ELSE <<flipped>> \o board
       ELSE IF tile.Left = board[Len(board)].Right THEN Append(board, tile) ELSE Append(board, flipped)

\* the removal loop of ApplyMove: drop the first tile of the hand equal to the move's tile
FirstMatch(hand, tile) ==
    IF \E i \in 1..Len(hand) : SameTile(hand[i], tile)
    THEN CHOOSE i \in 1..Len(hand) :
            /\ SameTile(hand[i], tile)
            /\ \A k \in 1..(i - 1) : ~SameTile(hand[k], tile)
    ELSE 0
RemoveTile(hand, tile) ==
    IF FirstMatch(hand, tile) = 0 THEN hand ELSE RemoveAt(hand, FirstMatch(hand, tile))

\* placeTileOnBoard indexes board[0] / board[len-1]: it crashes on an empty board
placeTileOnBoardPanics(board) == Len(board) = 0
\* The inputs on which ApplyMove crashes: placeTileOnBoard is called only in the
\* non-pass branch and only when len(state.Board) # 0; decoding aside, ApplyMove returns no error
DominoApplyPanics(state, move, playerID) ==
    ~move.Pass /\ Len(state.Board) # 0 /\ placeTileOnBoardPanics(state.Board)

\* ApplyMove without the check for an emptied hand: the turn always passes on
DominoApplyMoveNoWin(state, move, playerID) ==
    IF move.Pass
    THEN LET switched == [state EXCEPT !.CurrentTurn = getOtherPlayer(state, playerID)]
         IN IF ~canPlayerPlay(switched, switched.CurrentTurn)
            THEN [switched EXCEPT !.GameEnded = TRUE, !.Winner = determineWinnerByScore(switched)]
            ELSE switched
    ELSE LET removed == [state EXCEPT !.PlayerHands[playerID] = RemoveTile(@, move.Tile)]
             placed == [removed EXCEPT !.Board =
                            IF Len(state.Board) = 0 THEN <<move.Tile>>
                            ELSE placeTileOnBoard(state.Board, move.Tile, move.Side)]
         IN [placed EXCEPT !.CurrentTurn = getOtherPlayer(placed, playerID)]

\* ApplyMove without the blocked-game check after a pass: the turn just passes on
DominoApplyMoveNoBlock(state, move, playerID) ==
    IF move.Pass
    THEN [state EXCEPT !.CurrentTurn = getOtherPlayer(state, playerID)]
    ELSE LET removed == [state EXCEPT !.PlayerHands[playerID] = RemoveTile(@, move.Tile)]
             placed == [removed EXCEPT !.Board =
                            IF Len(state.Board) = 0 THEN <<move.Tile>>
                            ELSE placeTileOnBoard(state.Board, move.Tile, move.Side)]
         IN IF Len(placed.PlayerHands[playerID]) = 0
            THEN [placed EXCEPT !.GameEnded = TRUE, !.Winner = playerID]
            ELSE [placed EXCEPT !.CurrentTurn = getOtherPlayer(placed, playerID)]

\* DominoEngine.ApplyMove: the new state
DominoApplyMove(state, move, playerID) ==
    IF move.Pass
    THEN LET switched == [state EXCEPT !.CurrentTurn = getOtherPlayer(state, playerID)]
         IN IF ~canPlayerPlay(switched, switched.CurrentTurn)
            THEN [switched EXCEPT !.GameEnded = TRUE, !.Winner = determineWinnerByScore(switched)]
            ELSE switched
    ELSE LET removed == [state EXCEPT !.PlayerHands[playerID] = RemoveTile(@, move.Tile)]
             placed == [removed EXCEPT !.Board =
                            IF Len(state.Board) = 0 THEN <<move.Tile>>
                            ELSE placeTileOnBoard(state.Board, move.Tile, move.Side)]
         IN IF Len(placed.PlayerHands[playerID]) = 0
            THEN [placed EXCEPT !.GameEnded = TRUE, !.Winner = playerID]
            ELSE [placed EXCEPT !.CurrentTurn = getOtherPlayer(placed, playerID)]

\* DominoEngine.GetGameStatus: NextPlayer always points at CurrentTurn
DominoGetGameStatus(state) ==
    [IsGameOver |-> state.GameEnded,
     Winner |-> state.Winner,
     NextPlayer |-> state.CurrentTurn,
     IsDraw |-> state.GameEnded /\ state.Winner = NoWinner]

\* GetPossibleMoves (dominoes): the enumerated moves, in order
RECURSIVE DominoMovesOfHand(_, _, _)
DominoMovesOfHand(board, hand, i) ==
    IF i > Len(hand) THEN <<>>
    ELSE (IF board = <<>>
          THEN <<[Tile |-> hand[i], Side |-> "left", Pass |-> FALSE]>>
          ELSE (IF validateTilePlacement(board, hand[i], "left") = "ok"
                THEN <<[Tile |-> hand[i], Side |-> "left", Pass |-> FALSE]>> ELSE <<>>)
               \o (IF validateTilePlacement(board, hand[i], "right") = "ok"
                   THEN <<[Tile |-> hand[i], Side |-> "right", Pass |-> FALSE]>> ELSE <<>>))
         \o DominoMovesOfHand(board, hand, i + 1)
PassMove == [Tile |-> Tile(0, 0), Side |-> "", Pass |-> TRUE]
DominoGetPossibleMoves(state, playerID) ==
    LET plays == DominoMovesOfHand(state.Board, state.PlayerHands[playerID], 1)
    IN IF state.Board = <<>> THEN plays
       ELSE IF plays = <<>> THEN <<PassMove>>
       ELSE plays

(***************************************************************************)
(* ChessEngine                                                             *)
(***************************************************************************)
BoardSize == 8
Rows == 0..(BoardSize - 1)
Squares == Rows \X Rows
Pos(r, c) == [Row |-> r, Col |-> c]
Sq(pos) == <<pos.Row, pos.Col>>
Piece(t, c) == [Type |-> t, Color |-> c]
\* a nil *ChessPiece cell
NoPiece == [Type |-> "", Color |-> ""]
\* a nil *ChessPosition
NoTarget == [Row |-> -1, Col |-> -1]

\* isValidPosition
isValidPosition(pos) == pos.Row >= 0 /\ pos.Row < BoardSize /\ pos.Col >= 0 /\ pos.Col < BoardSize

\* setupInitialBoard
pieceOrder == <<"rook", "knight", "bishop", "queen", "king", "bishop", "knight", "rook">>
setupInitialBoard ==
    [sq \in Squares |->
        IF sq[1] = 1 THEN Piece("pawn", "black")
        ELSE IF sq[1] = 6 THEN Piece("pawn", "white")
        ELSE IF sq[1] = 0 THEN Piece(pieceOrder[sq[2] + 1], "black")
        ELSE IF sq[1] = 7 THEN Piece(pieceOrder[sq[2] + 1], "white")
        ELSE NoPiece]

\* ChessGameState with the given board, participants and side to move
ChessState(board, white, black, turn) ==
    [Board |-> board,
     CurrentTurn |-> turn,
     Player1ID |-> NilUUID,
     Player2ID |-> NilUUID,
     WhitePlayer |-> white,
     BlackPlayer |-> black,
     GameEnded |-> FALSE,
     Winner |-> NoWinner,
     Check |-> FALSE,
     Checkmate |-> FALSE,
     Stalemate |-> FALSE,
     WhiteKingSideCastle |-> TRUE,
     WhiteQueenSideCastle |-> TRUE,
     BlackKingSideCastle |-> TRUE,
     BlackQueenSideCastle |-> TRUE,
     EnPassantTarget |-> NoTarget,
     MoveCount |-> 0]

\* ChessEngine.Initialize: WhitePlayer and BlackPlayer are never assigned, so both are the zero UUID
ChessInitialize == ChessState(setupInitialBoard, NilUUID, NilUUID, "white")

\* getPlayerColor: every identifier other than WhitePlayer is black
getPlayerColor(state, playerID) == IF playerID = state.WhitePlayer THEN "white" ELSE "black"

Sign(x) == IF x > 0 THEN 1 ELSE IF x < 0 THEN -1 ELSE 0
Max(a, b) == IF a >= b THEN a ELSE b

\* checkPathClear: "ok" when every cell strictly between from and to is empty
checkPathClear(state, from, to) ==
    LET rowDir == Sign(to.Row - from.Row)
        colDir == Sign(to.Col - from.Col)
        dist == Max(Abs(to.Row - from.Row), Abs(to.Col - from.Col))
    IN IF \E k \in 1..(dist - 1) : state.Board[<<from.Row + k * rowDir, from.Col + k * colDir>>] # NoPiece
       THEN "path is blocked"
       ELSE "ok"

\* validatePawnMove: white advances with direction +1 from start row 6, black with -1 from start row 1
validatePawnMove(state, move, color) ==
    LET direction == IF color = "black" THEN -1 ELSE 1
        startRow == IF color = "black" THEN 1 ELSE 6
        rowDiff == move.To.Row - move.From.Row
        colDiff == move.To.Col - move.From.Col
        target == state.Board[Sq(move.To)]
    IN IF /\ colDiff = 0
          /\ \/ (rowDiff = direction /\ target = NoPiece)
             \/ /\ rowDiff = 2 * direction
                /\ move.From.Row = startRow
                /\ target = NoPiece
                /\ state.Board[<<move.From.Row + direction, move.From.Col>>] = NoPiece
       THEN "ok"
       ELSE IF /\ Abs(colDiff) = 1
               /\ rowDiff = direction
               /\ \/ (target # NoPiece /\ target.Color # color)
                  \/ (state.EnPassantTarget # NoTarget /\ move.To = state.EnPassantTarget)
       THEN "ok"
       ELSE "invalid pawn move"

\* validateRookMove
validateRookMove(state, move) ==
    IF move.From.Row # move.To.Row /\ move.From.Col # move.To.Col
    THEN "rook must move in straight line"
    ELSE checkPathClear(state, move.From, move.To)

\* validateKnightMove
validateKnightMove(move) ==
    LET rowDiff == Abs(move.To.Row - move.From.Row)
        colDiff == Abs(move.To.Col - move.From.Col)
    IN IF (rowDiff = 2 /\ colDiff = 1) \/ (rowDiff = 1 /\ colDiff = 2) THEN "ok" ELSE "invalid knight move"

\* validateBishopMove
validateBishopMove(state, move) ==
    IF Abs(move.To.Row - move.From.Row) # Abs(move.To.Col - move.From.Col)
    THEN "bishop must move diagonally"
    ELSE checkPathClear(state, move.From, move.To)

\* validateQueenMove
validateQueenMove(state, move) ==
    IF validateRookMove(state, move) = "ok" \/ validateBishopMove(state, move) = "ok"
    THEN "ok" ELSE "invalid queen move"

\* validateKingMove
validateKingMove(move) ==
    LET rowDiff == Abs(move.To.Row - move.From.Row)
        colDiff == Abs(move.To.Col - move.From.Col)
    IN IF rowDiff <= 1 /\ colDiff <= 1 /\ (rowDiff # 0 \/ colDiff # 0) THEN "ok" ELSE "invalid king move"

\* validatePieceMove
validatePieceMove(state, move, piece) ==
    CASE piece.Type = "pawn" -> validatePawnMove(state, move, piece.Color)
      [] piece.Type = "rook" -> validateRookMove(state, move)
      [] piece.Type = "knight" -> validateKnightMove(move)
      [] piece.Type = "bishop" -> validateBishopMove(state, move)
      [] piece.Type = "queen" -> validateQueenMove(state, move)
      [] piece.Type = "king" -> validateKingMove(move)
      [] OTHER -> "unknown piece type"

\* validateChessMove returning nil instead of the error for an empty source cell
validateChessMoveNilSource(state, move, playerColor) ==
    IF ~isValidPosition(move.From) \/ ~isValidPosition(move.To) THEN "invalid position"
    ELSE IF state.Board[Sq(move.From)] = NoPiece THEN "ok"
    ELSE IF state.Board[Sq(move.From)].Color # playerColor THEN "cannot move opponent's piece"
    ELSE IF state.Board[Sq(move.To)] # NoPiece /\ state.Board[Sq(move.To)].Color = playerColor
    THEN "cannot capture own piece"
    ELSE validatePieceMove(state, move, state.Board[Sq(move.From)])

\* validateChessMove
validateChessMove(state, move, playerColor) ==
    IF ~isValidPosition(move.From) \/ ~isValidPosition(move.To) THEN "invalid position"
    ELSE IF state.Board[Sq(move.From)] = NoPiece THEN "no piece at source position"
    ELSE IF state.Board[Sq(move.From)].Color # playerColor THEN "cannot move opponent's piece"
    ELSE IF state.Board[Sq(move.To)] # NoPiece /\ state.Board[Sq(move.To)].Color = playerColor
    THEN "cannot capture own piece"
    ELSE validatePieceMove(state, move, state.Board[Sq(move.From)])

\* ChessEngine.ValidateMove: "ok" for nil, otherwise the error
ChessValidateMove(state, move, playerID) ==
    IF getPlayerColor(state, playerID) # state.CurrentTurn THEN "not player's turn"
    ELSE IF state.GameEnded THEN "game has already ended"
    ELSE validateChessMove(state, move, getPlayerColor(state, playerID))

\* applyChessMove indexes the board with the move's cells and dereferences the source
\* piece without a check of its own: these are the inputs on which it crashes
ChessApplyPanics(state, move) ==
    \/ ~isValidPosition(move.From)
    \/ ~isValidPosition(move.To)
    \/ state.Board[Sq(move.From)] = NoPiece

\* applyChessMove
applyChessMove(state, move, playerColor) ==
    LET piece == state.Board[Sq(move.From)]
        landed == IF piece.Type = "pawn" /\ (move.To.Row = 0 \/ move.To.Row = 7)
                  THEN Piece(IF move.Promotion # "" THEN move.Promotion ELSE "queen", piece.Color)
                  ELSE piece
        board == [state.Board EXCEPT ![Sq(move.From)] = NoPiece, ![Sq(move.To)] = landed]
        target == IF landed.Type = "pawn" /\ Abs(move.To.Row - move.From.Row) = 2
                  THEN Pos((move.From.Row + move.To.Row) \div 2, move.From.Col)
                  ELSE NoTarget
        s1 == [state EXCEPT !.Board = board, !.EnPassantTarget = target]
        s2 == IF landed.Type = "king"
              THEN IF playerColor = "white"
                   THEN [s1 EXCEPT !.WhiteKingSideCastle = FALSE, !.WhiteQueenSideCastle = FALSE]
                   ELSE [s1 EXCEPT !.BlackKingSideCastle = FALSE, !.BlackQueenSideCastle = FALSE]
              ELSE s1
    IN IF landed.Type = "rook"
       THEN IF move.From.Row = 0 /\ move.From.Col = 0 THEN [s2 EXCEPT !.BlackQueenSideCastle = FALSE]
            ELSE IF move.From.Row = 0 /\ move.From.Col = 7 THEN [s2 EXCEPT !.BlackKingSideCastle = FALSE]
            ELSE IF move.From.Row = 7 /\ move.From.Col = 0 THEN [s2 EXCEPT !.WhiteQueenSideCastle = FALSE]
            ELSE IF move.From.Row = 7 /\ move.From.Col = 7 THEN [s2 EXCEPT !.WhiteKingSideCastle = FALSE]
            ELSE s2
       ELSE s2

\* updateGameStatus: the game ends only when a king is missing from the board
KingExists(state, color) == \E sq \in Squares : state.Board[sq] = Piece("king", color)
\* updateGameStatus naming the player of the missing king as the winner
updateGameStatusLoserWins(state) ==
    IF ~KingExists(state, "white") THEN [state EXCEPT !.GameEnded = TRUE, !.Winner = state.WhitePlayer]
    ELSE IF ~(\E sq \in Squares : state.Board[sq].Type = "king" /\ state.Board[sq].Color # "white")
    THEN [state EXCEPT !.GameEnded = TRUE, !.Winner = state.BlackPlayer]
    ELSE state
updateGameStatus(state) ==
    IF ~KingExists(state, "white") THEN [state EXCEPT !.GameEnded = TRUE, !.Winner = state.BlackPlayer]
    ELSE IF ~(\E sq \in Squares : state.Board[sq].Type = "king" /\ state.Board[sq].Color # "white")
    THEN [state EXCEPT !.GameEnded = TRUE, !.Winner = state.WhitePlayer]
    ELSE state

\* ChessEngine.ApplyMove (on inputs where applyChessMove does not crash)
ChessApplyMove(state, move, playerID) ==
    LET moved == applyChessMove(state, move, getPlayerColor(state, playerID))
        turned == [moved EXCEPT !.CurrentTurn = IF moved.CurrentTurn = "white" THEN "black" ELSE "white",
                                !.MoveCount = @ + 1]
    IN updateGameStatus(turned)

\* ChessEngine.GetGameStatus: NextPlayer is nil (NoWinner stands for the nil pointer)
\* once the game has ended
ChessGetGameStatus(state) ==
    [IsGameOver |-> state.GameEnded,
     Winner |-> state.Winner,
     NextPlayer |-> IF state.GameEnded THEN NoWinner
                    ELSE IF state.CurrentTurn = "white" THEN state.WhitePlayer
                    ELSE state.BlackPlayer,
     IsDraw |-> state.GameEnded /\ state.Winner = NoWinner]

\* The move generators of GetPossibleMoves, as the sets of moves they return (the
\* order of the list is not modelled). A generated move carries no promotion tag.
MoveTo(pos, r, c) == [From |-> pos, To |-> Pos(r, c), Promotion |-> ""]
\* the cells pos + i * dir, i = 1..7, up to the first one off the board
RayMoves(pos, dirs) ==
    {MoveTo(pos, pos.Row + d[1] * i, pos.Col + d[2] * i) : d \in dirs, i \in 1..(BoardSize - 1)}
StepMoves(pos, steps) == {MoveTo(pos, pos.Row + d[1], pos.Col + d[2]) : d \in steps}
OnBoardMoves(moves) == {m \in moves : isValidPosition(m.To)}
generatePawnMoves(state, pos, color) ==
    LET direction == IF color = "black" THEN -1 ELSE 1
    IN OnBoardMoves(StepMoves(pos, {<<direction, 0>>, <<direction, -1>>, <<direction, 1>>}))
generateRookMoves(pos) == OnBoardMoves(RayMoves(pos, {<<0, 1>>, <<0, -1>>, <<1, 0>>, <<-1, 0>>}))
generateKnightMoves(pos) ==
    OnBoardMoves(StepMoves(pos, {<<2, 1>>, <<2, -1>>, <<-2, 1>>, <<-2, -1>>,
                                 <<1, 2>>, <<1, -2>>, <<-1, 2>>, <<-1, -2>>}))
generateBishopMoves(pos) == OnBoardMoves(RayMoves(pos, {<<1, 1>>, <<1, -1>>, <<-1, 1>>, <<-1, -1>>}))
generateQueenMoves(pos) == generateRookMoves(pos) \cup generateBishopMoves(pos)
generateKingMoves(pos) ==
    OnBoardMoves(StepMoves(pos, {<<0, 1>>, <<0, -1>>, <<1, 0>>, <<-1, 0>>,
                                 <<1, 1>>, <<1, -1>>, <<-1, 1>>, <<-1, -1>>}))
generatePieceMoves(state, pos) ==
    LET piece == state.Board[Sq(pos)]
    IN CASE piece.Type = "pawn" -> generatePawnMoves(state, pos, piece.Color)
         [] piece.Type = "rook" -> generateRookMoves(pos)
         [] piece.Type = "knight" -> generateKnightMoves(pos)
         [] piece.Type = "bishop" -> generateBishopMoves(pos)
         [] piece.Type = "queen" -> generateQueenMoves(pos)
         [] piece.Type = "king" -> generateKingMoves(pos)
         [] OTHER -> {}

\* ChessEngine.GetPossibleMoves: the generated moves of the player's pieces that
\* validateChessMove accepts; neither the turn nor the ended flag is looked at
ChessGetPossibleMoves(state, playerID) ==
    LET playerColor == getPlayerColor(state, playerID)
    IN UNION {{m \in generatePieceMoves(state, Pos(sq[1], sq[2])) :
                  validateChessMove(state, m, playerColor) = "ok"} :
              sq \in {c \in Squares : state.Board[c] # NoPiece /\ state.Board[c].Color = playerColor}}

(***************************************************************************)
(* MatchmakingService: the redis store and the pure parts                  *)
(***************************************************************************)
GameTypes == {"chess", "dominoes"}
\* bound: users that queue; their UUID strings sort in the order of their numbers
NumUsers == 3
Users == 1..NumUsers
\* the rating each user queues with (UserStats.Rating)
UserRatings == <<1300, 1000, 1150, 1200, 1050>>
RatingOf(u) == UserRatings[((u - 1) % Len(UserRatings)) + 1]

SecondsPerMinute == 60
\* matchmakingTimeout = 5 * time.Minute, in seconds
matchmakingTimeout == 300
ratingTolerance == 100
maxRatingTolerance == 500
toleranceStep == 20

\* calculateRatingTolerance with the clamp to maxRatingTolerance left out
calculateRatingToleranceNoClamp(waitTime) ==
    ratingTolerance + (waitTime \div SecondsPerMinute) * toleranceStep

\* calculateRatingTolerance; waitTime in seconds, int(waitTime.Minutes()) whole minutes
calculateRatingTolerance(waitTime) ==
    LET tolerance == ratingTolerance + (waitTime \div SecondsPerMinute) * toleranceStep
    IN IF tolerance > maxRatingTolerance THEN maxRatingTolerance ELSE tolerance

\* ZScore(queueKey, user) finds the member
ZScoreFound(z, g, u) == \E e \in z[g] : e.member = u
ZScoreOf(z, g, u) == (CHOOSE e \in z[g] : e.member = u).score
\* ZAdd: a sorted set holds a member once; adding it again replaces its score
ZAdd(z, g, u, score) ==
    [z EXCEPT ![g] = {e \in @ : e.member # u} \cup {[member |-> u, score |-> score]}]
\* ZRem
ZRem(z, g, members) == [z EXCEPT ![g] = {e \in @ : e.member \notin members}]
\* ZRange(queueKey, 0, -1): members by ascending score, equal scores by member string
ZBefore(a, b) == a.score < b.score \/ (a.score = b.score /\ a.member < b.member)
RECURSIVE SortedMembers(_)
SortedMembers(es) ==
    IF es = {} THEN <<>>
    ELSE LET first == CHOOSE a \in es : \A b \in es \ {a} : ZBefore(a, b)
         IN <<first.member>> \o SortedMembers(es \ {first})
ZRange(z, g) == SortedMembers(z[g])

\* Get of matchmaking:request:<user>: the key exists and its TTL has not run out
HasRequest(r, u, t) == u \in DOMAIN r /\ t < r[u].ExpireAt
\* Set(requestKey, requestData, matchmakingTimeout) at time t
SetRequest(r, u, req, t) ==
    [x \in DOMAIN r \cup {u} |->
        IF x = u
        THEN [UserID |-> req.UserID, GameType |-> req.GameType, Rating |-> req.Rating,
              JoinedAt |-> req.JoinedAt, ExpireAt |-> t + matchmakingTimeout]
        ELSE r[x]]
\* Del(requestKey)
DelRequest(r, members) == [x \in DOMAIN r \ members |-> r[x]]

\* the store: sorted sets, request keys, and the games table
Store(z, r, gs) == [zset |-> z, reqs |-> r, games |-> gs]

\* JoinQueue with its duplicate check left out
AlreadyQueuedUnchecked(st, u, g) == FALSE

\* JoinQueue: the duplicate check (err == nil && exists != 0)
AlreadyQueued(st, u, g) == ZScoreFound(st.zset, g, u) /\ ZScoreOf(st.zset, g, u) # 0
\* JoinQueue: the request it builds
NewRequest(u, g, rating, t) == [UserID |-> u, GameType |-> g, Rating |-> rating, JoinedAt |-> t]
\* JoinQueue: [err, st]
JoinQueue(st, u, g, rating, t) ==
    IF AlreadyQueued(st, u, g)
    THEN [err |-> "user already in matchmaking queue", st |-> st]
    ELSE [err |-> "ok",
          st |-> [st EXCEPT !.zset = ZAdd(@, g, u, t),
                            !.reqs = SetRequest(@, u, NewRequest(u, g, rating, t), t)]]

\* LeaveQueue treating a member that was not queued as an error
LeaveQueueStrict(st, u, g) ==
    IF ~ZScoreFound(st.zset, g, u)
    THEN [err |-> "user not in matchmaking queue", st |-> st]
    ELSE [err |-> "ok", st |-> [st EXCEPT !.zset = ZRem(@, g, {u}), !.reqs = DelRequest(@, {u})]]

\* LeaveQueue: [err, st]; ZRem and Del of something absent are no errors
LeaveQueue(st, u, g) ==
    [err |-> "ok", st |-> [st EXCEPT !.zset = ZRem(@, g, {u}), !.reqs = DelRequest(@, {u})]]

\* createMatch: the game record (its state comes from engine.Initialize of the request's game type)
NewGame(player1, player2, t) ==
    [Type |-> player1.GameType, Player1ID |-> player1.UserID, Player2ID |-> player2.UserID,
     CurrentTurn |-> player1.UserID, StartedAt |-> t]

\* the rating test with the ceiling in place of the tolerance of player 1's wait
WithinMaxTolerance(player1, player2, t) ==
    Abs(player1.Rating - player2.Rating) <= maxRatingTolerance

\* matchPlayers: the rating test of the inner loop
WithinTolerance(player1, player2, t) ==
    Abs(player1.Rating - player2.Rating) <= calculateRatingTolerance(t - player1.JoinedAt)

\* matchPlayers without the return after a created match: the loops go on over the snapshot
RECURSIVE MatchFromNoReturn(_, _, _, _, _, _, _)
MatchFromNoReturn(st, g, ids, i, j, t, fails) ==
    IF i > Len(ids) - 1 THEN st
    ELSE IF j > Len(ids) THEN MatchFromNoReturn(st, g, ids, i + 1, i + 2, t, fails)
    ELSE IF ~HasRequest(st.reqs, ids[i], t) THEN MatchFromNoReturn(st, g, ids, i + 1, i + 2, t, fails)
    ELSE IF ~HasRequest(st.reqs, ids[j], t) THEN MatchFromNoReturn(st, g, ids, i, j + 1, t, fails)
    ELSE IF ~WithinTolerance(st.reqs[ids[i]], st.reqs[ids[j]], t)
    THEN MatchFromNoReturn(st, g, ids, i, j + 1, t, fails)
    ELSE IF fails > 0 THEN MatchFromNoReturn(st, g, ids, i, j + 1, t, fails - 1)
    ELSE MatchFromNoReturn(
            Store(ZRem(st.zset, g, {ids[i], ids[j]}),
                  DelRequest(st.reqs, {ids[j]}),
                  Append(st.games, NewGame(st.reqs[ids[i]], st.reqs[ids[j]], t))),
            g, ids, i, j + 1, t, fails)
matchPlayersNoReturn(st, g, userIDs, t, fails) == MatchFromNoReturn(st, g, userIDs, 1, 2, t, fails)

\* matchPlayers: outer loop i, inner loop j over the snapshot userIDs; the requests are
\* read from the live store; the first `fails` createMatch calls return an error.
RECURSIVE MatchFrom(_, _, _, _, _, _, _)
MatchFrom(st, g, ids, i, j, t, fails) ==
    IF i > Len(ids) - 1 THEN st
    ELSE IF j > Len(ids) THEN MatchFrom(st, g, ids, i + 1, i + 2, t, fails)
    ELSE IF ~HasRequest(st.reqs, ids[i], t) THEN MatchFrom(st, g, ids, i + 1, i + 2, t, fails)
    ELSE IF ~HasRequest(st.reqs, ids[j], t) THEN MatchFrom(st, g, ids, i, j + 1, t, fails)
    ELSE IF ~WithinTolerance(st.reqs[ids[i]], st.reqs[ids[j]], t) THEN MatchFrom(st, g, ids, i, j + 1, t, fails)
    ELSE IF fails > 0 THEN MatchFrom(st, g, ids, i, j + 1, t, fails - 1)
    ELSE Store(ZRem(st.zset, g, {ids[i], ids[j]}),
               DelRequest(st.reqs, {ids[i], ids[j]}),
               Append(st.games, NewGame(st.reqs[ids[i]], st.reqs[ids[j]], t)))
matchPlayers(st, g, userIDs, t, fails) == MatchFrom(st, g, userIDs, 1, 2, t, fails)

\* processMatchmaking: the game types in the (unspecified) order of the registry map.
\* Result [st, made]: made[g] tells the games created and the entries removed for queue g.
NoneMade == [g \in GameTypes |-> [games |-> <<>>, removed |-> 0]]
RECURSIVE processMatchmaking(_, _, _, _, _)
processMatchmaking(st, order, t, fails, made) ==
    IF order = <<>> THEN [st |-> st, made |-> made]
    ELSE LET g == Head(order)
             userIDs == ZRange(st.zset, g)
             swept == IF Len(userIDs) < 2 THEN st ELSE matchPlayers(st, g, userIDs, t, fails)
             did == [games |-> SubSeq(swept.games, Len(st.games) + 1, Len(swept.games)),
                     removed |-> Cardinality(st.zset[g]) - Cardinality(swept.zset[g])]
         IN processMatchmaking(swept, Tail(order), t, fails, [made EXCEPT ![g] = did])

\* cleanupExpiredRequests: the users of one queue it evicts
ExpiredUsers(st, g, t) ==
    {u \in Range(ZRange(st.zset, g)) :
        ~HasRequest(st.reqs, u, t) \/ t - st.reqs[u].JoinedAt > matchmakingTimeout}
RECURSIVE cleanupExpiredRequests(_, _, _)
cleanupExpiredRequests(st, order, t) ==
    IF order = <<>> THEN st
    ELSE LET expired == ExpiredUsers(st, Head(order), t)
         IN cleanupExpiredRequests(
                [st EXCEPT !.zset = ZRem(@, Head(order), expired), !.reqs = DelRequest(@, expired)],
                Tail(order), t)

(***************************************************************************)
(* Domino game: states and the validate-then-apply step                    *)
(***************************************************************************)
\* bound: accepted moves explored in a game started by Initialize (14 tiles in one hand)
MaxDomMoves == 4
\* bound: hand size of the two-player states supplied through the engine boundary
MaxCallerHand == 3

\* A shuffle whose two-tile hands block with equal pip sums: [6|6], [0|3] against
\* [6|5], [1|2]
BlockingHands == <<Tile(6, 6), Tile(0, 3), Tile(5, 6), Tile(1, 2)>>
NotInBlockingHands(t) == \A i \in 1..Len(BlockingHands) : ~SameTile(t, BlockingHands[i])
BlockingShuffle == BlockingHands \o SelectSeq(generateDominoSet, NotInBlockingHands)

\* Two-player states a caller hands to the engine: distinct participants 1 and 2,
\* n tiles each from a shuffle, every other tile in the boneyard.
CallerDominoStates ==
    {DealtState(1, 2, sh, n, SubSeq(sh, 2 * n + 1, NumTiles)) : sh \in Shuffles, n \in 1..MaxCallerHand}
        \cup {DealtState(1, 2, BlockingShuffle, 2, SubSeq(BlockingShuffle, 5, NumTiles))}

NoChess == Idle
HubIdle == hub = Idle /\ hubLast = Idle
MMIdle ==
    /\ zset = Idle /\ reqs = Idle /\ games = Idle /\ now = 0
    /\ joinLog = Idle /\ handled = 0 /\ calls = Idle /\ mmLast = Idle /\ tickMatches = Idle /\ due = Idle
    /\ sweep = Idle
    /\ HubIdle
ChessIdle == chess = NoChess /\ chessOrigin = Idle /\ chessLast = NoCall
\* domLast before any call (domMoves = 0 tells it apart from a pass)
DomNoCall == [player |-> NilUUID, move |-> PassMove]
DomIdle == dom = Idle /\ domOrigin = Idle /\ domLast = DomNoCall /\ domMoves = 0

InitDomino ==
    /\ \/ domOrigin = "initialize" /\ dom \in {Initialize(sh) : sh \in Shuffles}
       \/ domOrigin = "caller" /\ dom \in CallerDominoStates
    /\ domLast = DomNoCall
    /\ domMoves = 0
    /\ ChessIdle
    /\ MMIdle

\* moves submitted by clients: every tile orientation on every side, or a pass
SubmittedDominoMoves == {m \in DominoMoves : m.Pass => m = PassMove}

\* A client call: ValidateMove, and ApplyMove when it returned nil
DominoPlay(p, m) ==
    /\ domOrigin # Idle
    /\ domOrigin = "initialize" => domMoves < MaxDomMoves
    /\ ~m.Pass
    /\ DominoValidateMove(dom, m, p) = "ok"
    /\ dom' = DominoApplyMove(dom, m, p)
    /\ domLast' = [player |-> p, move |-> m]
    /\ domMoves' = domMoves + 1
    /\ UNCHANGED <<domOrigin, chessVars, mmVars, hubVars>>

DominoPass(p) ==
    /\ domOrigin # Idle
    /\ domOrigin = "initialize" => domMoves < MaxDomMoves
    /\ DominoValidateMove(dom, PassMove, p) = "ok"
    /\ dom' = DominoApplyMove(dom, PassMove, p)
    /\ domLast' = [player |-> p, move |-> PassMove]
    /\ domMoves' = domMoves + 1
    /\ UNCHANGED <<domOrigin, chessVars, mmVars, hubVars>>

NextDomino ==
    \/ \E p \in UUIDs, m \in SubmittedDominoMoves : DominoPlay(p, m)
    \/ \E p \in UUIDs : DominoPass(p)

SpecDomino == InitDomino /\ [][NextDomino]_vars
\* the game in which the clients keep submitting moves as long as one is accepted
SpecDominoLive == SpecDomino /\ WF_vars(NextDomino)

(***************************************************************************)
(* Chess game: states and the validate-then-apply step                     *)
(***************************************************************************)
\* bound: plies explored in a game started by Initialize
MaxChessPly == 3
\* bound: plies explored from a state supplied through the engine boundary
MaxCallerPly == 1

\* a board holding the given pieces only
BoardOf(placed) == [sq \in Squares |-> IF sq \in DOMAIN placed THEN placed[sq] ELSE NoPiece]

\* A sparse position: kings, a rook each on a home corner, a knight one jump from
\* the white king, and one pawn each one step from the rank it promotes on.
SparseBoard ==
    BoardOf(<<7, 4>> :> Piece("king", "white") @@ <<7, 7>> :> Piece("rook", "white")
            @@ <<6, 0>> :> Piece("pawn", "white")
            @@ <<0, 4>> :> Piece("king", "black") @@ <<0, 0>> :> Piece("rook", "black")
            @@ <<5, 3>> :> Piece("knight", "black") @@ <<1, 7>> :> Piece("pawn", "black"))

\* A position with an en-passant target: the black pawn on <<4, 2>> has passed the
\* cell <<5, 2>>, which the white pawn on <<4, 1>> attacks; white is to move.
EnPassantBoard ==
    BoardOf(<<7, 4>> :> Piece("king", "white") @@ <<4, 1>> :> Piece("pawn", "white")
            @@ <<0, 4>> :> Piece("king", "black") @@ <<4, 2>> :> Piece("pawn", "black"))
EnPassantState == [ChessState(EnPassantBoard, 1, 2, "white") EXCEPT !.EnPassantTarget = Pos(5, 2)]

\* A game of participants 1 (white) and 2 (black) played move by move through
\* ValidateMove and ApplyMove; a rejected move leaves the state as it is
Ply(player, fr, fc, tr, tc) ==
    [player |-> player, move |-> [From |-> Pos(fr, fc), To |-> Pos(tr, tc), Promotion |-> ""]]
RECURSIVE PlayChess(_, _)
PlayChess(state, plies) ==
    IF plies = <<>> THEN state
    ELSE PlayChess(IF ChessValidateMove(state, Head(plies).move, Head(plies).player) = "ok"
                   THEN ChessApplyMove(state, Head(plies).move, Head(plies).player)
                   ELSE state,
                   Tail(plies))
\* Twelve plies from the initial board: a black knight takes the pawn on <<6, 0>>, the
\* white rook from <<7, 0>> takes the knight, the pawn on <<1, 0>> and the rook on
\* <<0, 0>>, which has never moved
RookRaid ==
    <<Ply(1, 7, 6, 5, 5), Ply(2, 0, 1, 2, 0), Ply(1, 5, 5, 7, 6), Ply(2, 2, 0, 4, 1),
      Ply(1, 7, 6, 5, 5), Ply(2, 4, 1, 6, 0), Ply(1, 7, 0, 6, 0), Ply(2, 0, 6, 2, 5),
      Ply(1, 6, 0, 1, 0), Ply(2, 2, 5, 0, 6), Ply(1, 1, 0, 0, 0), Ply(2, 0, 6, 2, 5)>>
RookRaidState == PlayChess(ChessState(setupInitialBoard, 1, 2, "white"), RookRaid)

\* States a caller hands to the engine: participants 1 (white) and 2 (black)
CallerChessStates ==
    {ChessState(b, 1, 2, t) : b \in {setupInitialBoard, SparseBoard}, t \in {"white", "black"}}
        \cup {EnPassantState, RookRaidState}

ChessNoCall == [player |-> NilUUID, move |-> [From |-> Pos(0, 0), To |-> Pos(0, 0), Promotion |-> ""]]

InitChess ==
    /\ \/ chessOrigin = "initialize" /\ chess = ChessInitialize
       \/ chessOrigin = "caller" /\ chess \in CallerChessStates
    /\ chessLast = ChessNoCall
    /\ DomIdle
    /\ MMIdle

Promotions == {"", "knight"}
OnBoard == {Pos(r, c) : r \in Rows, c \in Rows}
\* moves submitted by clients; a promotion tag only where it is read
SubmittedChessMoves(state) ==
    {m \in [From : OnBoard, To : OnBoard, Promotion : Promotions] :
        m.Promotion # "" => (state.Board[Sq(m.From)].Type = "pawn" /\ m.To.Row \in {0, 7})}

\* A client call: ValidateMove, and ApplyMove when it returned nil
ChessMove(p, m) ==
    /\ ChessValidateMove(chess, m, p) = "ok"
    /\ chess' = ChessApplyMove(chess, m, p)
    /\ chessLast' = [player |-> p, move |-> m]
    /\ UNCHANGED <<chessOrigin, domVars, mmVars, hubVars>>

NextChess ==
    /\ chessOrigin # Idle
    /\ chess.MoveCount < (IF chessOrigin = "initialize" THEN MaxChessPly ELSE MaxCallerPly)
    /\ \E p \in UUIDs : \E m \in SubmittedChessMoves(chess) : ChessMove(p, m)

SpecChess == InitChess /\ [][NextChess]_vars

(***************************************************************************)
(* Both engines behind the GameEngine interface                            *)
(***************************************************************************)
InitEngines == InitDomino \/ InitChess
NextEngines == NextDomino \/ NextChess
SpecEngines == InitEngines /\ [][NextEngines]_vars

\* createMatch lines 229-238: the GameState of the record is what Initialize() of the
\* engine registered for the game type returns; Initialize takes no arguments
InitialStates(gameType) ==
    IF gameType = "dominoes" THEN {Initialize(sh) : sh \in Shuffles} ELSE {ChessInitialize}

(***************************************************************************)
(* calculateRatingTolerance over a growing wait                            *)
(***************************************************************************)
\* bound: the longest wait explored, in minutes
MaxWaitMinutes == 25
\* the clock starts at a positive Unix time
StartTime == SecondsPerMinute
WaitSteps == {1, SecondsPerMinute - 1, SecondsPerMinute}

ToleranceOf(joinedAt, t) ==
    [op |-> "calculateRatingTolerance", joinedAt |-> joinedAt, tolerance |-> calculateRatingTolerance(t - joinedAt)]

InitTolerance ==
    /\ DomIdle /\ ChessIdle /\ HubIdle
    /\ zset = Idle /\ reqs = Idle /\ games = Idle /\ joinLog = Idle /\ handled = 0
    /\ calls = Idle /\ tickMatches = Idle /\ due = Idle /\ sweep = Idle
    /\ now = StartTime
    /\ mmLast = ToleranceOf(StartTime, StartTime)

\* time.Since(JoinedAt) grows by d seconds and the tolerance is computed again
ToleranceAfter(d) ==
    /\ now + d - mmLast.joinedAt <= MaxWaitMinutes * SecondsPerMinute
    /\ now' = now + d
    /\ mmLast' = ToleranceOf(mmLast.joinedAt, now + d)
    /\ UNCHANGED <<hubVars, domVars, chessVars, sweep, zset, reqs, games, joinLog, handled, calls, tickMatches, due>>

NextTolerance == \E d \in WaitSteps : ToleranceAfter(d)
SpecTolerance == InitTolerance /\ [][NextTolerance]_vars

(***************************************************************************)
(* MatchmakingService: handlers and the two periodic jobs                  *)
(***************************************************************************)
\* bound: JoinQueue and LeaveQueue calls handled in one run
MaxHandled == 3
\* bound: minutes the clock moves on in one run
MaxTicks == 5
\* bound: createMatch calls of one sweep that return an error (database down)
MaxCreateFailures == 1
\* the clock moves in steps of a minute; calls between two steps fall into the same second
TickStep == SecondsPerMinute
Jobs == {"match", "cleanup"}
\* GetSupportedTypes ranges over a Go map: any order
Orders == {o \in [1..Cardinality(GameTypes) -> GameTypes] : \A a, b \in 1..Cardinality(GameTypes) : o[a] = o[b] => a = b}
NoRequests == [x \in {} |-> x]
\* bound: JoinQueue / LeaveQueue calls in flight at once
MaxCalls == 2
Slots == 1..MaxCalls
NoCallRec == [op |-> "", user |-> NilUUID, gameType |-> "", pc |-> "", joinedAt |-> 0]
MMStep(op, u, g, err, queued, fails) ==
    [op |-> op, user |-> u, gameType |-> g, err |-> err, queued |-> queued, fails |-> fails]
CurStore == Store(zset, reqs, games)
\* the join order of the entries still queued
KeepQueued(log, z) == [g \in GameTypes |-> SelectSeq(log[g], LAMBDA u : ZScoreFound(z, g, u))]
LogJoin(log, g, u) == [log EXCEPT ![g] = Append(SelectSeq(@, LAMBDA x : x # u), u)]

\* the locals of matchPlayers before a request has been read
NoRequest == [UserID |-> NilUUID, GameType |-> "", Rating |-> 0, JoinedAt |-> 0, ExpireAt |-> 0]
\* no sweep is running: the goroutine of the matching ticker waits for its next tick
NoSweep == [pc |-> "idle", order |-> <<>>, ids |-> <<>>, i |-> 0, j |-> 0,
            player1 |-> NoRequest, player2 |-> NoRequest, lost |-> 0]

InitMM ==
    /\ DomIdle /\ ChessIdle /\ HubIdle
    /\ zset = [g \in GameTypes |-> {}]
    /\ reqs = NoRequests
    /\ games = <<>>
    /\ now = StartTime
    /\ joinLog = [g \in GameTypes |-> <<>>]
    /\ handled = 0
    /\ calls = [s \in Slots |-> NoCallRec]
    /\ mmLast = MMStep("Start", NilUUID, "", "ok", FALSE, 0)
    /\ tickMatches = NoneMade
    /\ due = Jobs
    /\ sweep = NoSweep

\* a JoinQueue call that runs alone
MMJoin(u, g) ==
    LET res == JoinQueue(CurStore, u, g, RatingOf(u), now)
    IN /\ handled < MaxHandled
       /\ zset' = res.st.zset
       /\ reqs' = res.st.reqs
       /\ joinLog' = IF res.err = "ok" THEN LogJoin(joinLog, g, u) ELSE joinLog
       /\ handled' = handled + 1
       /\ mmLast' = MMStep("JoinQueue", u, g, res.err, ZScoreFound(zset, g, u), 0)
       /\ UNCHANGED <<hubVars, domVars, chessVars, sweep, games, now, calls, tickMatches, due>>

\* a LeaveQueue call that runs alone
MMLeave(u, g) ==
    LET res == LeaveQueue(CurStore, u, g)
    IN /\ handled < MaxHandled
       /\ zset' = res.st.zset
       /\ reqs' = res.st.reqs
       /\ joinLog' = KeepQueued(joinLog, res.st.zset)
       /\ handled' = handled + 1
       /\ mmLast' = MMStep("LeaveQueue", u, g, res.err, ZScoreFound(zset, g, u), 0)
       /\ UNCHANGED <<hubVars, domVars, chessVars, sweep, games, now, calls, tickMatches, due>>

\* one tick of the matching ticker
MMSweep(order, fails) ==
    LET res == processMatchmaking(CurStore, order, now, fails, NoneMade)
    IN /\ zset' = res.st.zset
       /\ reqs' = res.st.reqs
       /\ games' = res.st.games
       /\ joinLog' = KeepQueued(joinLog, res.st.zset)
       /\ tickMatches' = res.made
       /\ mmLast' = MMStep("processMatchmaking", NilUUID, "", "ok", FALSE, fails)
       /\ due' = due \ {"match"}
       /\ UNCHANGED <<hubVars, domVars, chessVars, sweep, now, handled, calls>>

\* one tick of the cleanup ticker
MMCleanup(order) ==
    LET st == cleanupExpiredRequests(CurStore, order, now)
    IN /\ zset' = st.zset
       /\ reqs' = st.reqs
       /\ joinLog' = KeepQueued(joinLog, st.zset)
       /\ mmLast' = MMStep("cleanupExpiredRequests", NilUUID, "", "ok", FALSE, 0)
       /\ due' = due \ {"cleanup"}
       /\ UNCHANGED <<hubVars, domVars, chessVars, sweep, games, now, handled, calls, tickMatches>>

\* the clock moves on a minute once both tickers have fired and the calls in flight,
\* which take milliseconds, have returned (with every queue empty the passing of
\* time changes nothing, so the clock is left alone then)
MMAdvance ==
    /\ due = {}
    /\ \E g \in GameTypes : zset[g] # {}
    /\ \A s \in Slots : calls[s] = NoCallRec
    /\ now < StartTime + MaxTicks * TickStep
    /\ now' = now + TickStep
    /\ due' = Jobs
    /\ mmLast' = MMStep("clock", NilUUID, "", "ok", FALSE, 0)
    /\ UNCHANGED <<hubVars, domVars, chessVars, sweep, zset, reqs, games, joinLog, handled, calls, tickMatches>>

NextMM ==
    \/ \E u \in Users : \E g \in GameTypes : MMJoin(u, g)
    \/ \E u \in Users : \E g \in GameTypes : MMLeave(u, g)
    \/ \E order \in Orders : \E fails \in 0..MaxCreateFailures : MMSweep(order, fails)
    \/ \E order \in Orders : MMCleanup(order)
    \/ MMAdvance
SpecMM == InitMM /\ [][NextMM]_vars

(***************************************************************************)
(* JoinQueue and LeaveQueue as the store sees them: one redis command at   *)
(* a time, calls of different HTTP requests interleaved                    *)
(***************************************************************************)
CallRec(op, u, g, pc, joinedAt) == [op |-> op, user |-> u, gameType |-> g, pc |-> pc, joinedAt |-> joinedAt]

\* a new call runs in the first free slot (0: none free)
FreeSlot ==
    IF \E s \in Slots : calls[s] = NoCallRec
    THEN CHOOSE s \in Slots : calls[s] = NoCallRec /\ \A r \in Slots : calls[r] = NoCallRec => s <= r
    ELSE 0

\* JoinQueue lines 77-87: ZScore, the early return, the request with JoinedAt = time.Now()
JoinCheck(s, u, g) ==
    /\ s = FreeSlot
    /\ handled < MaxHandled
    /\ handled' = handled + 1
    /\ IF AlreadyQueued(CurStore, u, g)
       THEN /\ mmLast' = MMStep("JoinQueue", u, g, "user already in matchmaking queue", TRUE, 0)
            /\ UNCHANGED calls
       ELSE /\ calls' = [calls EXCEPT ![s] = CallRec("JoinQueue", u, g, "zadd", now)]
            /\ UNCHANGED mmLast
    /\ UNCHANGED <<hubVars, domVars, chessVars, sweep, zset, reqs, games, now, joinLog, tickMatches, due>>

\* JoinQueue lines 95-102: ZAdd with score time.Now().Unix()
JoinZAdd(s) ==
    /\ calls[s].pc = "zadd"
    /\ zset' = ZAdd(zset, calls[s].gameType, calls[s].user, now)
    /\ joinLog' = LogJoin(joinLog, calls[s].gameType, calls[s].user)
    /\ calls' = [calls EXCEPT ![s].pc = "set"]
    /\ UNCHANGED <<hubVars, domVars, chessVars, sweep, reqs, games, now, handled, mmLast, tickMatches, due>>

\* JoinQueue lines 105-112: Set with the TTL, return nil
JoinSet(s) ==
    /\ calls[s].pc = "set"
    /\ reqs' = SetRequest(reqs, calls[s].user,
                          NewRequest(calls[s].user, calls[s].gameType, RatingOf(calls[s].user), calls[s].joinedAt),
                          now)
    /\ calls' = [calls EXCEPT ![s] = NoCallRec]
    /\ mmLast' = MMStep("JoinQueue", calls[s].user, calls[s].gameType, "ok",
                        calls[s].user \in DOMAIN reqs, 0)
    /\ UNCHANGED <<hubVars, domVars, chessVars, sweep, zset, games, now, joinLog, handled, tickMatches, due>>

\* LeaveQueue lines 120-123: ZRem
LeaveZRem(s, u, g) ==
    /\ s = FreeSlot
    /\ handled < MaxHandled
    /\ handled' = handled + 1
    /\ zset' = ZRem(zset, g, {u})
    /\ joinLog' = KeepQueued(joinLog, ZRem(zset, g, {u}))
    /\ calls' = [calls EXCEPT ![s] = CallRec("LeaveQueue", u, g, "del", 0)]
    /\ UNCHANGED <<hubVars, domVars, chessVars, sweep, reqs, games, now, mmLast, tickMatches, due>>

\* LeaveQueue lines 126-133: Del, return nil
LeaveDel(s) ==
    /\ calls[s].pc = "del"
    /\ reqs' = DelRequest(reqs, {calls[s].user})
    /\ calls' = [calls EXCEPT ![s] = NoCallRec]
    /\ mmLast' = MMStep("LeaveQueue", calls[s].user, calls[s].gameType, "ok", calls[s].user \in DOMAIN reqs, 0)
    /\ UNCHANGED <<hubVars, domVars, chessVars, sweep, zset, games, now, joinLog, handled, tickMatches, due>>

NextMMConc ==
    \/ \E s \in Slots : \E u \in Users : \E g \in GameTypes : JoinCheck(s, u, g)
    \/ \E s \in Slots : JoinZAdd(s)
    \/ \E s \in Slots : JoinSet(s)
    \/ \E s \in Slots : \E u \in Users : \E g \in GameTypes : LeaveZRem(s, u, g)
    \/ \E s \in Slots : LeaveDel(s)
    \/ \E order \in Orders : \E fails \in 0..MaxCreateFailures : MMSweep(order, fails)
    \/ \E order \in Orders : MMCleanup(order)
    \/ MMAdvance
SpecMMConc == InitMM /\ [][NextMMConc]_vars

(***************************************************************************)
(* The two tickers against concurrent JoinQueue calls: nobody leaves, so   *)
(* an entry goes only by a match or by the cleanup sweep                   *)
(***************************************************************************)
NextCleanup ==
    \/ \E s \in Slots : \E u \in Users : \E g \in GameTypes : JoinCheck(s, u, g)
    \/ \E s \in Slots : JoinZAdd(s)
    \/ \E s \in Slots : JoinSet(s)
    \/ \E order \in Orders : \E fails \in 0..MaxCreateFailures : MMSweep(order, fails)
    \/ \E order \in Orders : MMCleanup(order)
    \/ MMAdvance
SpecCleanup == InitMM /\ [][NextCleanup]_vars

(***************************************************************************)
(* The matching sweep as the store sees it: processMatchmaking and         *)
(* matchPlayers one redis or database command at a time, against calls of  *)
(* JoinQueue and LeaveQueue and the cleanup ticker                         *)
(***************************************************************************)
\* bound: commands of the sweeps of one run that fail (the store or the database is
\* unreachable for a moment)
MaxSweepFailures == 3

\* processMatchmaking goes on to the next game type, or returns after the last one
SweepNextType(sw) ==
    IF Len(sw.order) <= 1 THEN [NoSweep EXCEPT !.lost = sw.lost]
    ELSE [NoSweep EXCEPT !.pc = "zrange", !.order = Tail(sw.order), !.lost = sw.lost]
\* the sweep goes to sw; the ticker waits for its next tick once the sweep has returned
SweepTo(sw) ==
    /\ sweep' = sw
    /\ due' = IF sw.pc = "idle" THEN due \ {"match"} ELSE due

\* the matching ticker fires: processMatchmaking starts its range over the game types
SweepStart(order) ==
    /\ "match" \in due
    /\ sweep.pc = "idle"
    /\ sweep' = [sweep EXCEPT !.pc = "zrange", !.order = order]
    /\ UNCHANGED <<hubVars, domVars, chessVars, zset, reqs, games, now, joinLog, handled, calls,
                   mmLast, tickMatches, due>>

\* processMatchmaking lines 162-176: ZRange, and matchPlayers when two or more are queued
SweepZRange ==
    /\ sweep.pc = "zrange"
    /\ LET userIDs == ZRange(zset, Head(sweep.order))
       IN SweepTo(IF Len(userIDs) < 2 THEN SweepNextType(sweep)
                  ELSE [sweep EXCEPT !.pc = "get1", !.ids = userIDs, !.i = 1])
    /\ UNCHANGED <<hubVars, domVars, chessVars, zset, reqs, games, now, joinLog, handled, calls,
                   mmLast, tickMatches>>

\* matchPlayers lines 183-192: the outer loop reads the request of userIDs[i]
SweepGet1 ==
    /\ sweep.pc = "get1"
    /\ SweepTo(IF sweep.i > Len(sweep.ids) - 1 THEN SweepNextType(sweep)
               ELSE IF ~HasRequest(reqs, sweep.ids[sweep.i], now) THEN [sweep EXCEPT !.i = @ + 1]
               ELSE [sweep EXCEPT !.pc = "get2", !.player1 = reqs[sweep.ids[sweep.i]],
                                  !.j = sweep.i + 1])
    /\ UNCHANGED <<hubVars, domVars, chessVars, zset, reqs, games, now, joinLog, handled, calls,
                   mmLast, tickMatches>>

\* matchPlayers lines 195-204: the inner loop reads the request of userIDs[j] and
\* compares the ratings
SweepGet2 ==
    /\ sweep.pc = "get2"
    /\ SweepTo(IF sweep.j > Len(sweep.ids)
               THEN [sweep EXCEPT !.pc = "get1", !.i = @ + 1, !.j = 0, !.player1 = NoRequest]
               ELSE IF ~HasRequest(reqs, sweep.ids[sweep.j], now) THEN [sweep EXCEPT !.j = @ + 1]
               ELSE IF ~WithinTolerance(sweep.player1, reqs[sweep.ids[sweep.j]], now)
               THEN [sweep EXCEPT !.j = @ + 1]
               ELSE [sweep EXCEPT !.pc = "create", !.player2 = reqs[sweep.ids[sweep.j]]])
    /\ UNCHANGED <<hubVars, domVars, chessVars, zset, reqs, games, now, joinLog, handled, calls,
                   mmLast, tickMatches>>

\* matchPlayers lines 206-210: createMatch with the two requests read before; on an
\* error the inner loop goes on
SweepCreate(ok) ==
    /\ sweep.pc = "create"
    /\ ~ok => sweep.lost < MaxSweepFailures
    /\ games' = IF ok THEN Append(games, NewGame(sweep.player1, sweep.player2, now)) ELSE games
    /\ sweep' = IF ok THEN [sweep EXCEPT !.pc = "zrem"]
                ELSE [sweep EXCEPT !.pc = "get2", !.j = @ + 1, !.player2 = NoRequest, !.lost = @ + 1]
    /\ UNCHANGED <<hubVars, domVars, chessVars, zset, reqs, now, joinLog, handled, calls,
                   mmLast, tickMatches, due>>

\* matchPlayers lines 213-221: ZRem of both members, Del of player 1's request, Del of
\* player 2's request, return; the result of none of the three commands is looked at
SweepRemove(ok) ==
    LET g == Head(sweep.order)
        id1 == sweep.ids[sweep.i]
        id2 == sweep.ids[sweep.j]
        counted == IF ok THEN sweep ELSE [sweep EXCEPT !.lost = @ + 1]
    IN /\ sweep.pc \in {"zrem", "del1", "del2"}
       /\ ~ok => sweep.lost < MaxSweepFailures
       /\ zset' = IF ok /\ sweep.pc = "zrem" THEN ZRem(zset, g, {id1, id2}) ELSE zset
       /\ reqs' = IF ok /\ sweep.pc = "del1" THEN DelRequest(reqs, {id1})
                  ELSE IF ok /\ sweep.pc = "del2" THEN DelRequest(reqs, {id2})
                  ELSE reqs
       /\ joinLog' = KeepQueued(joinLog, zset')
       /\ SweepTo(IF sweep.pc = "zrem" THEN [counted EXCEPT !.pc = "del1"]
                  ELSE IF sweep.pc = "del1" THEN [counted EXCEPT !.pc = "del2"]
                  ELSE SweepNextType(counted))
       /\ UNCHANGED <<hubVars, domVars, chessVars, games, now, handled, calls, mmLast, tickMatches>>

NextSweep ==
    \/ \E u \in Users : \E g \in GameTypes : MMJoin(u, g)
    \/ \E u \in Users : \E g \in GameTypes : MMLeave(u, g)
    \/ \E order \in Orders : SweepStart(order)
    \/ SweepZRange
    \/ SweepGet1
    \/ SweepGet2
    \/ \E ok \in BOOLEAN : SweepCreate(ok)
    \/ \E ok \in BOOLEAN : SweepRemove(ok)
    \/ \E order \in Orders : MMCleanup(order)
    \/ MMAdvance
SpecSweep == InitMM /\ [][NextSweep]_vars

(***************************************************************************)
(* websocket Hub: registry, rooms, per-client send buffers                 *)
(***************************************************************************)
\* bound: websocket connections (Client.ID, one per HandleWebSocket call)
NumClients == 2
Clients == 1..NumClients
RoomIDs == {"r1", "r2"}
\* bound: capacity of Client.Send (make(chan []byte, 256)), scaled down
SendCap == 1
\* bound: messages the clients and the broadcast channel hand to the hub in one run
MaxHubCalls == 3

Msg(type, room, about) == [Type |-> type, RoomID |-> room, PlayerID |-> about]
PlayerJoined(room, c) == Msg("player_joined", room, c)
PlayerLeft(room, c) == Msg("player_left", room, c)
LeftKeys == Clients \X RoomIDs \X Clients

\* NewHub
NewHub ==
    [clients |-> {},
     rooms |-> [r \in {} |-> {}],
     cRooms |-> [c \in Clients |-> {}],
     send |-> [c \in Clients |-> <<>>],
     closed |-> [c \in Clients |-> FALSE],
     pump |-> [c \in Clients |-> "none"],
     stale |-> [c \in Clients |-> FALSE],
     pc |-> "select",
     calls |-> 0,
     left |-> [k \in LeftKeys |-> 0],
     evicted |-> {}]

\* a goroutine panicked (close of a closed channel, send on a closed channel): the process dies
Panics(h) == [h EXCEPT !.pc = "panic"]
Full(h, c) == Len(h.send[c]) >= SendCap
\* client.Send <- message succeeded
Enqueue(h, c, msg) ==
    [h EXCEPT !.send[c] = Append(@, msg),
              !.left = IF msg.Type = "player_left"
                       THEN [@ EXCEPT ![<<c, msg.RoomID, msg.PlayerID>>] = @ + 1]
                       ELSE @]
MinOf(S) == CHOOSE x \in S : \A y \in S : x <= y

\* broadcastToRoom, the loop over room.Clients: send, or on a full buffer close it
\* and delete the client from this room's map
RECURSIVE roomSend(_, _, _, _)
roomSend(h, roomID, todo, msg) ==
    IF todo = {} \/ h.pc = "panic" THEN h
    ELSE LET c == MinOf(todo)
             next == IF h.closed[c] THEN Panics(h)
                     ELSE IF ~Full(h, c) THEN Enqueue(h, c, msg)
                     ELSE [h EXCEPT !.closed[c] = TRUE,
                                    !.rooms[roomID] = @ \ {c},
                                    !.evicted = @ \cup {<<c, roomID>>}]
         IN roomSend(next, roomID, todo \ {c}, msg)

\* broadcastToRoom
broadcastToRoom(h, roomID, msg) ==
    IF roomID \notin DOMAIN h.rooms THEN h
    ELSE roomSend(h, roomID, h.rooms[roomID], msg)

\* removeClientFromRoom
removeClientFromRoom(h, c, roomID) ==
    IF roomID \notin DOMAIN h.rooms THEN h
    ELSE LET removed == [h EXCEPT !.rooms[roomID] = @ \ {c}, !.cRooms[c] = @ \ {roomID}]
             isEmpty == removed.rooms[roomID] = {}
             told == broadcastToRoom(removed, roomID, PlayerLeft(roomID, c))
         IN IF told.pc = "panic" THEN told
            ELSE IF isEmpty
            THEN [told EXCEPT !.rooms = [r \in DOMAIN told.rooms \ {roomID} |-> told.rooms[r]]]
            ELSE told

\* unregisterClient, the loop over client.Rooms in the order the map yields them
RECURSIVE leaveRooms(_, _, _)
leaveRooms(h, c, order) ==
    IF order = <<>> \/ h.pc = "panic" THEN h
    ELSE leaveRooms(removeClientFromRoom(h, c, Head(order)), c, Tail(order))

\* unregisterClient
unregisterClient(h, c, order) ==
    IF c \notin h.clients THEN h
    ELSE LET left == leaveRooms(h, c, order)
         IN IF left.pc = "panic" THEN left
            ELSE IF left.closed[c] THEN Panics([left EXCEPT !.clients = @ \ {c}])
            ELSE [left EXCEPT !.clients = @ \ {c}, !.closed[c] = TRUE]

\* the orders in which a range over a set of room ids can yield them
RoomOrders(S) ==
    {o \in [1..Cardinality(S) -> S] : \A a, b \in 1..Cardinality(S) : o[a] = o[b] => a = b}

\* registerClient
registerClient(h, c) == [h EXCEPT !.clients = @ \cup {c}]

\* broadcastMessage, the loop over h.clients
RECURSIVE globalSend(_, _, _)
globalSend(h, todo, msg) ==
    IF todo = {} \/ h.pc = "panic" THEN h
    ELSE LET c == MinOf(todo)
             next == IF h.closed[c] THEN Panics(h)
                     ELSE IF ~Full(h, c) THEN Enqueue(h, c, msg)
                     ELSE [h EXCEPT !.closed[c] = TRUE, !.clients = @ \ {c}]
         IN globalSend(next, todo \ {c}, msg)

\* broadcastMessage
broadcastMessage(h, msg) == globalSend(h, h.clients, msg)

\* JoinRoom: [err, h]
JoinRoom(h, c, roomID) ==
    IF c \notin h.clients THEN [err |-> "client not found", h |-> h]
    ELSE LET made == IF roomID \in DOMAIN h.rooms THEN h.rooms
                     ELSE [r \in DOMAIN h.rooms \cup {roomID} |-> IF r = roomID THEN {} ELSE h.rooms[r]]
             joined == [h EXCEPT !.rooms = [made EXCEPT ![roomID] = @ \cup {c}],
                                 !.cRooms[c] = @ \cup {roomID}]
         IN [err |-> "ok", h |-> broadcastToRoom(joined, roomID, PlayerJoined(roomID, c))]

\* LeaveRoom: [err, h]
LeaveRoom(h, c, roomID) ==
    IF c \notin h.clients THEN [err |-> "client not found", h |-> h]
    ELSE [err |-> "ok", h |-> removeClientFromRoom(h, c, roomID)]

\* cleanupInactiveClients: the clients it finds inactive
InactiveClients(h) == {c \in h.clients : h.stale[c]}
\* cleanupInactiveClients runs on the goroutine of Run and sends on the unbuffered
\* channel h.unregister, which only Run receives from: with an inactive client the
\* send never completes, and h.mutex stays locked
cleanupInactiveClients(h) ==
    IF InactiveClients(h) = {} THEN h ELSE [h EXCEPT !.pc = "blocked"]

(***************************************************************************)
(* Hub: the dispatch loop, the read pumps and the write pumps              *)
(***************************************************************************)
HubStep(op, c, roomID, err) == [op |-> op, client |-> c, room |-> roomID, err |-> err]
\* after a panic nothing of the process state is left to look at
Settle(h) == IF h.pc = "panic" THEN Panics(hub) ELSE h
\* h.mutex can be taken and the process is alive
HubFree == hub.pc = "select"

InitHub ==
    /\ DomIdle /\ ChessIdle
    /\ zset = Idle /\ reqs = Idle /\ games = Idle /\ now = 0 /\ joinLog = Idle /\ handled = 0
    /\ calls = Idle /\ mmLast = Idle /\ tickMatches = Idle /\ due = Idle /\ sweep = Idle
    /\ hub = NewHub
    /\ hubLast = HubStep("NewHub", 0, "", "ok")

\* HandleWebSocket: the new client goes through h.register, its pumps start
Connect(c) ==
    /\ HubFree
    /\ hub.pump[c] = "none"
    /\ hub' = [registerClient(hub, c) EXCEPT !.pump[c] = "reading"]
    /\ hubLast' = HubStep("registerClient", c, "", "ok")
    /\ UNCHANGED <<domVars, chessVars, mmVars>>

\* readPump has read a message: c.LastSeen = time.Now()
Touch(h, c) == [h EXCEPT !.stale[c] = FALSE]

\* readPump reads a join_room message
ClientJoin(c, roomID) ==
    /\ HubFree /\ hub.calls < MaxHubCalls
    /\ hub.pump[c] = "reading"
    /\ LET res == JoinRoom(Touch(hub, c), c, roomID)
       IN /\ hub' = [Settle(res.h) EXCEPT !.calls = @ + 1]
          /\ hubLast' = HubStep("JoinRoom", c, roomID, res.err)
    /\ UNCHANGED <<domVars, chessVars, mmVars>>

\* readPump reads a leave_room message
ClientLeave(c, roomID) ==
    /\ HubFree /\ hub.calls < MaxHubCalls
    /\ hub.pump[c] = "reading"
    /\ LET res == LeaveRoom(Touch(hub, c), c, roomID)
       IN /\ hub' = [Settle(res.h) EXCEPT !.calls = @ + 1]
          /\ hubLast' = HubStep("LeaveRoom", c, roomID, res.err)
    /\ UNCHANGED <<domVars, chessVars, mmVars>>

\* readPump reads a chat_message or game_move: BroadcastToRoom
ClientChat(c, roomID) ==
    /\ HubFree /\ hub.calls < MaxHubCalls
    /\ hub.pump[c] = "reading"
    /\ hub' = [Settle(broadcastToRoom(Touch(hub, c), roomID, Msg("chat_message", roomID, c))) EXCEPT !.calls = @ + 1]
    /\ hubLast' = HubStep("BroadcastToRoom", c, roomID, "ok")
    /\ UNCHANGED <<domVars, chessVars, mmVars>>

\* readPump reads a heartbeat: c.Send <- responseBytes, a send that waits for room
ClientHeartbeat(c) ==
    /\ hub.pc # "panic" /\ hub.calls < MaxHubCalls
    /\ hub.pump[c] = "reading"
    /\ hub' = IF hub.closed[c] THEN [Panics(hub) EXCEPT !.calls = @ + 1]
              ELSE IF Full(hub, c) THEN [Touch(hub, c) EXCEPT !.pump[c] = "blocked", !.calls = @ + 1]
              ELSE [Enqueue(Touch(hub, c), c, Msg("heartbeat", "", c)) EXCEPT !.calls = @ + 1]
    /\ hubLast' = HubStep("heartbeat", c, "", "ok")
    /\ UNCHANGED <<domVars, chessVars, mmVars>>

\* writePump takes what is buffered; a read pump waiting in its heartbeat send gets through
WriteDrain(c) ==
    /\ hub.pc # "panic"
    /\ ~hub.closed[c]
    /\ hub.send[c] # <<>>
    /\ hub' = IF hub.pump[c] = "blocked"
              THEN [hub EXCEPT !.send[c] = <<Msg("heartbeat", "", c)>>, !.pump[c] = "reading"]
              ELSE [hub EXCEPT !.send[c] = <<>>]
    /\ hubLast' = HubStep("writePump", c, "", "ok")
    /\ UNCHANGED <<domVars, chessVars, mmVars>>

\* a read pump that has waited in its heartbeat send for longer than the timeout:
\* LastSeen has not been touched since
GoStale(c) ==
    /\ hub.pc # "panic"
    /\ c \in hub.clients
    /\ hub.pump[c] = "blocked"
    /\ ~hub.stale[c]
    /\ hub' = [hub EXCEPT !.stale[c] = TRUE]
    /\ hubLast' = HubStep("clock", c, "", "ok")
    /\ UNCHANGED <<domVars, chessVars, mmVars>>

\* ReadMessage fails (peer gone, connection closed by writePump): readPump leaves its
\* loop and waits to hand itself to h.unregister
Disconnect(c) ==
    /\ hub.pc # "panic"
    /\ hub.pump[c] = "reading"
    /\ hub' = [hub EXCEPT !.pump[c] = "exiting"]
    /\ hubLast' = HubStep("readPump exit", c, "", "ok")
    /\ UNCHANGED <<domVars, chessVars, mmVars>>

\* Run: case client := <-h.unregister
HubUnregister(c, order) ==
    /\ HubFree
    /\ hub.pump[c] = "exiting"
    /\ hub' = [Settle(unregisterClient(hub, c, order)) EXCEPT !.pump[c] = "done"]
    /\ hubLast' = HubStep("unregisterClient", c, "", "ok")
    /\ UNCHANGED <<domVars, chessVars, mmVars>>

\* Run: case message := <-h.broadcast
HubBroadcast ==
    /\ HubFree /\ hub.calls < MaxHubCalls
    /\ hub' = [Settle(broadcastMessage(hub, Msg("game_update", "", 0))) EXCEPT !.calls = @ + 1]
    /\ hubLast' = HubStep("broadcastMessage", 0, "", "ok")
    /\ UNCHANGED <<domVars, chessVars, mmVars>>

\* Run: case <-ticker.C
HubTick ==
    /\ HubFree
    /\ hub' = cleanupInactiveClients(hub)
    /\ hubLast' = HubStep("cleanupInactiveClients", 0, "", "ok")
    /\ UNCHANGED <<domVars, chessVars, mmVars>>

NextHub ==
    \/ \E c \in Clients : Connect(c)
    \/ \E c \in Clients : \E r \in RoomIDs : ClientJoin(c, r)
    \/ \E c \in Clients : \E r \in RoomIDs : ClientLeave(c, r)
    \/ \E c \in Clients : \E r \in RoomIDs : ClientChat(c, r)
    \/ \E c \in Clients : ClientHeartbeat(c)
    \/ \E c \in Clients : WriteDrain(c)
    \/ \E c \in Clients : GoStale(c)
    \/ \E c \in Clients : Disconnect(c)
    \/ \E c \in Clients : \E order \in RoomOrders(hub.cRooms[c]) : HubUnregister(c, order)
    \/ HubBroadcast
    \/ HubTick
SpecHub == InitHub /\ [][NextHub]_vars

(***************************************************************************)
(* Claims about the engines                                                *)
(***************************************************************************)
\* every chess move payload that decodes, cells off the board included
OffBoard == {Pos(-1, 0), Pos(BoardSize, 7), Pos(0, -1), Pos(3, BoardSize)}
AnyPos == OnBoard \cup OffBoard
AnyChessMoves == [From : AnyPos, To : AnyPos, Promotion : {""}]

DominoGame == domOrigin # Idle
ChessGame == chessOrigin # Idle

RECURSIVE NoRepeat(_)
NoRepeat(s) ==
    IF s = <<>> THEN TRUE
    ELSE (\A i \in 2..Len(s) : ~SameTile(s[1], s[i])) /\ NoRepeat(Tail(s))

\* C1: in every state reached from Initialize by validated moves, the tiles of player
\* 1's hand, player 2's hand, the board and the boneyard number exactly 28, and no
\* tile occurs twice among them.
C1_TileConservation ==
    domOrigin = "initialize" =>
        LET all == dom.PlayerHands[dom.Player1ID] \o dom.PlayerHands[dom.Player2ID]
                     \o dom.Board \o dom.BoneYard
        IN Len(all) = NumTiles /\ NoRepeat(all)

\* C2: for both engines, whenever ValidateMove(s, m, p) returns nil, ApplyMove(s, m, p)
\* returns a state: it does not crash and returns no error.
C2_ValidatedMoveApplies ==
    /\ DominoGame =>
          \A p \in UUIDs : \A m \in DominoMoves :
              DominoValidateMove(dom, m, p) = "ok" => ~DominoApplyPanics(dom, m, p)
    /\ ChessGame =>
          \A p \in UUIDs : \A m \in AnyChessMoves :
              ChessValidateMove(chess, m, p) = "ok" => ~ChessApplyPanics(chess, m)

\* C2 witness: a validated chess capture has been applied
W_C2_AppliedCapture ==
    /\ ChessGame
    /\ chess.MoveCount > 0
    /\ chess.Board[Sq(chessLast.move.To)] # NoPiece
    /\ Cardinality({sq \in Squares : chess.Board[sq] # NoPiece}) < Cardinality({sq \in Squares : SparseBoard[sq] # NoPiece})

\* a non-pass move that ValidateMove accepts for the player
HasLegalPlacement(state, p) ==
    \E m \in DominoMoves : ~m.Pass /\ DominoValidateMove(state, m, p) = "ok"
OffersPlacement(state, p) ==
    \E i \in 1..Len(DominoGetPossibleMoves(state, p)) : ~DominoGetPossibleMoves(state, p)[i].Pass

\* C3: for the player to move in a non-ended domino game, a pass is rejected whenever
\* GetPossibleMoves offers a non-pass move, and accepted when no tile placement is legal.
C3_MustPlay ==
    (DominoGame /\ ~dom.GameEnded) =>
        /\ OffersPlacement(dom, dom.CurrentTurn) => DominoValidateMove(dom, PassMove, dom.CurrentTurn) # "ok"
        /\ ~HasLegalPlacement(dom, dom.CurrentTurn) => DominoValidateMove(dom, PassMove, dom.CurrentTurn) = "ok"

\* C3 witness: the player to move holds tiles, none fits either end, and the game goes on
W_C3_StuckPlayer ==
    /\ DominoGame
    /\ ~dom.GameEnded
    /\ dom.Board # <<>>
    /\ dom.PlayerHands[dom.CurrentTurn] # <<>>
    /\ ~HasLegalPlacement(dom, dom.CurrentTurn)

\* the participant whose turn it is in a chess state
ChessTurnPlayer(state) == IF state.CurrentTurn = "white" THEN state.WhitePlayer ELSE state.BlackPlayer

\* C4: for both engines ValidateMove returns an error for every move when the acting
\* player is not the player whose turn it is (non-participants included) or the game has ended.
C4_WrongPlayerOrEndedRejected ==
    /\ DominoGame =>
          \A p \in UUIDs : \A m \in DominoMoves :
              (dom.GameEnded \/ p # dom.CurrentTurn) => DominoValidateMove(dom, m, p) # "ok"
    /\ ChessGame =>
          \A p \in UUIDs : \A m \in AnyChessMoves :
              (chess.GameEnded \/ p # ChessTurnPlayer(chess)) => ChessValidateMove(chess, m, p) # "ok"


(***************************************************************************)
(* Claims about matchmaking                                                *)
(***************************************************************************)
InQueue(z, g, u) == \E e \in z[g] : e.member = u
Min(a, b) == IF a < b THEN a ELSE b

\* C5: the tolerance computed for a request is 100 plus 20 per whole minute waited,
\* capped: no shorter wait gives a larger tolerance, and it never exceeds 500.
C5_ToleranceMonotoneBounded ==
    LET wait == now - mmLast.joinedAt
    IN /\ mmLast.tolerance <= 500
       /\ mmLast.tolerance = Min(500, 100 + 20 * (wait \div 60))
       /\ \A w \in 0..wait : calculateRatingTolerance(w) <= mmLast.tolerance

\* a wait long enough for the uncapped value to pass the maximum
W_C5_Capped == mmLast.tolerance = 500 /\ 100 + 20 * ((now - mmLast.joinedAt) \div 60) > 500

PairedInStep(u) ==
    \E k \in (Len(games) + 1)..Len(games') : u \in {games'[k].Player1ID, games'[k].Player2ID}

\* C6: two requests queued for the same game type whose ratings differ by at most
\* the maximum tolerance (500) and that do not call LeaveQueue are paired by the
\* sweep; in particular neither of them leaves the queue unpaired.
C6_CompatiblePairIsPaired ==
    [][\A g \in GameTypes : \A a, b \in Users :
        (/\ a # b
         /\ InQueue(zset, g, a) /\ InQueue(zset, g, b)
         /\ a \in DOMAIN reqs /\ reqs[a].GameType = g
         /\ b \in DOMAIN reqs /\ reqs[b].GameType = g
         /\ Abs(reqs[a].Rating - reqs[b].Rating) <= 500
         /\ mmLast'.op # "LeaveQueue")
        => (InQueue(zset', g, a) \/ PairedInStep(a))]_vars

JoinedBefore(log, x, a) == \E i, j \in 1..Len(log) : i < j /\ log[i] = x /\ log[j] = a

\* C7: a sweep visits the queued requests of a game type in the order in which
\* JoinQueue recorded them, and it never pairs a request with an opponent while
\* an earlier joined request, compatible with that opponent, stays behind.
C7_FIFO ==
    [][(mmLast'.op = "processMatchmaking" /\ mmLast'.fails = 0) =>
        \A g \in GameTypes :
            /\ ZRange(zset, g) = joinLog[g]
            /\ \A k \in 1..Len(tickMatches'[g].games) :
                LET a == tickMatches'[g].games[k].Player1ID
                    b == tickMatches'[g].games[k].Player2ID
                IN \A x \in Users \ {a, b} :
                    ~(/\ InQueue(zset, g, x) /\ InQueue(zset', g, x)
                      /\ HasRequest(reqs, x, now) /\ x \in DOMAIN reqs'
                      /\ JoinedBefore(joinLog[g], x, a)
                      /\ Abs(reqs[x].Rating - reqs[b].Rating)
                            <= calculateRatingTolerance(now - reqs[x].JoinedAt))]_vars

\* C8: one tick of the matching sweep creates at most one game per game type's
\* queue and removes exactly the two entries of that game.
C8_OneMatchPerTick ==
    \A g \in GameTypes :
        /\ Len(tickMatches[g].games) <= 1
        /\ tickMatches[g].removed = 2 * Len(tickMatches[g].games)

\* a tick made a match although a further queued request was as close to player 1
W_C8_SecondPairLeft ==
    /\ mmLast.op = "processMatchmaking"
    /\ \E g \in GameTypes : \E x \in Users :
        /\ Len(tickMatches[g].games) = 1
        /\ InQueue(zset, g, x) /\ HasRequest(reqs, x, now)
        /\ Abs(RatingOf(x) - RatingOf(tickMatches[g].games[1].Player1ID))
            <= Abs(RatingOf(tickMatches[g].games[1].Player2ID) - RatingOf(tickMatches[g].games[1].Player1ID))

C10_LeaveQueueIdempotent ==
    \A u \in Users : \A g \in GameTypes :
        LET first == LeaveQueue(CurStore, u, g)
            second == LeaveQueue(first.st, u, g)
        IN /\ first.err = "ok"
           /\ ~InQueue(first.st.zset, g, u)
           /\ u \notin DOMAIN first.st.reqs
           /\ first.st.zset[g] = {e \in zset[g] : e.member # u}
           /\ \A h \in GameTypes \ {g} : first.st.zset[h] = zset[h]
           /\ \A v \in DOMAIN reqs \ {u} : v \in DOMAIN first.st.reqs /\ first.st.reqs[v] = reqs[v]
           /\ first.st.games = games
           /\ second.err = "ok"
           /\ second.st = first.st

\* a queued user with a stored request has left
W_C10_Left ==
    /\ mmLast.op = "LeaveQueue" /\ mmLast.err = "ok" /\ mmLast.queued
    /\ ~InQueue(zset, mmLast.gameType, mmLast.user)
    /\ mmLast.user \notin DOMAIN reqs


(***************************************************************************)
(* Claims about the hub                                                    *)
(***************************************************************************)
MemberOf(h, c, r) == r \in DOMAIN h.rooms /\ c \in h.rooms[r]
EvictedInStep(c, r) == <<c, r>> \in hub'.evicted /\ <<c, r>> \notin hub.evicted

\* C11: a session whose buffer is full during a room broadcast is evicted: removed from
\* the room and from the registry, its buffer closed; the room's remaining members get a
\* player_left notification for it, and no second one in any later step.
C11_RoomEviction ==
    [][\A c \in Clients : \A r \in RoomIDs :
        /\ EvictedInStep(c, r) =>
            /\ hub'.closed[c]
            /\ ~MemberOf(hub', c, r)
            /\ c \notin hub'.clients
            /\ \A m \in Clients \ {c} :
                (MemberOf(hub', m, r) /\ ~Full(hub, m)) =>
                    hub'.left[<<m, r, c>>] = hub.left[<<m, r, c>>] + 1
        /\ (<<c, r>> \in hub.evicted /\ hub'.pc # "panic") =>
            \A m \in Clients \ {c} : hub'.left[<<m, r, c>>] = hub.left[<<m, r, c>>]]_vars

\* C12: a liveness tick that finds a session inactive returns: the dispatch loop is back
\* at its select, ready for later register, unregister and broadcast events, and the
\* inactive sessions are on their way through the unregister path.
C12_TickReturns ==
    hubLast.op = "cleanupInactiveClients" =>
        /\ hub.pc = "select"
        /\ \A c \in Clients : (c \in hub.clients /\ hub.stale[c]) => hub.pump[c] = "exiting"

\* C13: a global broadcast appends the message to the buffer of every registered session
\* that has room for it; every registered session whose buffer is full ends with its
\* buffer closed, unregistered and a member of no room; the dispatch loop does not block.
C13_GlobalBroadcast ==
    [][hubLast'.op = "broadcastMessage" =>
        /\ hub'.pc # "blocked"
        /\ \A c \in hub.clients :
            IF ~Full(hub, c)
            THEN c \in hub'.clients /\ Len(hub'.send[c]) = Len(hub.send[c]) + 1
                 /\ hub'.send[c][Len(hub'.send[c])].Type = "game_update"
            ELSE /\ hub'.closed[c]
                 /\ c \notin hub'.clients
                 /\ \A r \in RoomIDs : ~MemberOf(hub', c, r)]_vars

\* C14: unregistering a registered session takes it out of every room it belongs to, gives
\* each such room's remaining members one player_left notification, closes its buffer and
\* removes it from the registry; unregistering it again changes nothing.
C14_Unregister ==
    hub.pc = "select" => \A c \in hub.clients : \A order \in RoomOrders(hub.cRooms[c]) :
        LET after == unregisterClient(hub, c, order)
        IN /\ after.pc # "panic"
           /\ c \notin after.clients
           /\ after.closed[c]
           /\ \A r \in RoomIDs : ~MemberOf(after, c, r)
           /\ \A r \in hub.cRooms[c] : \A m \in Clients \ {c} :
                (MemberOf(hub, m, r) /\ MemberOf(after, m, r)) =>
                    after.left[<<m, r, c>>] = hub.left[<<m, r, c>>] + 1
           /\ unregisterClient(after, c, <<>>) = after

\* C15: the room registry never holds a room without members.
C15_NoEmptyRoom ==
    \A r \in DOMAIN hub.rooms : hub.rooms[r] # {}

(***************************************************************************)
(* Claims about the chess board                                            *)
(***************************************************************************)
Occupied(board) == Cardinality({sq \in Squares : board[sq] # NoPiece})
\* a capture on an occupied cell
TakesPiece(state, move) == state.Board[Sq(move.To)] # NoPiece
\* the en-passant capture validatePawnMove accepts: a pawn stepping diagonally
\* onto the en-passant target
TakesEnPassant(state, move) ==
    /\ state.Board[Sq(move.From)].Type = "pawn"
    /\ move.To.Col # move.From.Col
    /\ state.EnPassantTarget # NoTarget
    /\ move.To = state.EnPassantTarget
IsCapture(state, move) == TakesPiece(state, move) \/ TakesEnPassant(state, move)

PawnStartRow(color) == IF color = "white" THEN 6 ELSE 1
PawnForward(color) == IF color = "white" THEN -1 ELSE 1
\* the double step of the pawn of the given colour on column col
DoubleStep(color, col) ==
    [From |-> Pos(PawnStartRow(color), col),
     To |-> Pos(PawnStartRow(color) + 2 * PawnForward(color), col),
     Promotion |-> ""]
DoubleStepOpen(state, color, col) ==
    /\ state.Board[<<PawnStartRow(color), col>>] = Piece("pawn", color)
    /\ state.Board[<<PawnStartRow(color) + PawnForward(color), col>>] = NoPiece
    /\ state.Board[<<PawnStartRow(color) + 2 * PawnForward(color), col>>] = NoPiece

\* C17: in a game that has not ended, a pawn of the side to move that stands on its
\* starting square with the two cells in front of it empty may move two ranks
\* forward: ValidateMove accepts the move, and after ApplyMove the en-passant target
\* is the cell the pawn passed over.
C17_PawnDoubleStep ==
    (ChessGame /\ ~chess.GameEnded) =>
        \A p \in UUIDs : \A col \in Rows :
            LET color == chess.CurrentTurn
                m == DoubleStep(color, col)
            IN (getPlayerColor(chess, p) = color /\ DoubleStepOpen(chess, color, col)) =>
                   /\ ChessValidateMove(chess, m, p) = "ok"
                   /\ ChessApplyMove(chess, m, p).EnPassantTarget
                          = Pos(PawnStartRow(color) + PawnForward(color), col)

(***************************************************************************)
(* Claims about the domino game                                            *)
(***************************************************************************)
\* the keys of the PlayerHands map
HandOwners(state) == {u \in UUIDs : state.PlayerHands[u] # <<>>}

\* C18: for every shuffle, the state Initialize returns has two player hands of 7
\* tiles each, a boneyard of 14 tiles, an empty board, and an active player who holds
\* the highest-valued tile of the two hands, the first player on a tie.
C18_InitialDeal ==
    (domOrigin = "initialize" /\ domMoves = 0) =>
        /\ Cardinality(HandOwners(dom)) = 2
        /\ \A u \in HandOwners(dom) : Len(dom.PlayerHands[u]) = HandSize
        /\ Len(dom.BoneYard) = NumTiles - 2 * HandSize
        /\ dom.Board = <<>>
        /\ dom.CurrentTurn \in HandOwners(dom)
        /\ \A u \in HandOwners(dom) :
               getHighestTileValue(dom.PlayerHands[dom.CurrentTurn])
                   >= getHighestTileValue(dom.PlayerHands[u])
        /\ getHighestTileValue(dom.PlayerHands[dom.Player1ID])
               >= getHighestTileValue(dom.PlayerHands[dom.Player2ID])
             => dom.CurrentTurn = dom.Player1ID

\* C19: when an accepted play removes the acting player's last tile, the resulting
\* state has the ended flag set and that player as winner; and a state produced by an
\* accepted play has the ended flag set only if the acting player's hand is empty.
C19_LastTileWins ==
    DominoGame =>
        \A p \in UUIDs : \A m \in DominoMoves :
            (~m.Pass /\ DominoValidateMove(dom, m, p) = "ok") =>
                LET after == DominoApplyMove(dom, m, p)
                IN /\ Len(dom.PlayerHands[p]) = 1 =>
                          (after.PlayerHands[p] = <<>> /\ after.GameEnded /\ after.Winner = p)
                   /\ after.GameEnded => after.PlayerHands[p] = <<>>

\* C19 witness: the last call was a play of the player's last tile, and it won
W_C19_WonByLastTile ==
    /\ DominoGame
    /\ domMoves > 0
    /\ ~domLast.move.Pass
    /\ dom.PlayerHands[domLast.player] = <<>>
    /\ dom.GameEnded
    /\ dom.Winner = domLast.player

\* a tile placement of player u would be legal if it were u's turn
CanPlace(state, u) == HasLegalPlacement([state EXCEPT !.CurrentTurn = u], u)

\* C20: after an accepted pass the turn is with the other player; if that player has
\* no legal placement either, the game ends and the winner is the player whose hand
\* has the strictly lower pip sum, nobody when the sums are equal; if that player has
\* a legal placement the game does not end.
C20_PassAndBlock ==
    DominoGame =>
        \A p \in UUIDs :
            DominoValidateMove(dom, PassMove, p) = "ok" =>
                LET after == DominoApplyMove(dom, PassMove, p)
                    other == after.CurrentTurn
                    mine == calculateHandScore(dom.PlayerHands[p])
                    theirs == calculateHandScore(dom.PlayerHands[other])
                IN /\ other # p
                   /\ other \in {dom.Player1ID, dom.Player2ID}
                   /\ IF CanPlace(dom, other)
                      THEN ~after.GameEnded
                      ELSE /\ after.GameEnded
                           /\ after.Winner = (IF mine < theirs THEN p
                                               ELSE IF theirs < mine THEN other
                                               ELSE NoWinner)

(***************************************************************************)
(* Claims about turns and participants                                     *)
(***************************************************************************)
\* C21: in every non-ended state reached from Initialize by accepted moves the
\* active-turn field designates exactly one of the game's two participants. Dominoes:
\* the two player ids differ and CurrentTurn is one of them. Chess: the two player ids
\* differ and the identifiers the engine takes for the colour to move are exactly the
\* player of that colour.
C21_OneActivePlayer ==
    /\ (domOrigin = "initialize" /\ ~dom.GameEnded) =>
           /\ dom.Player1ID # dom.Player2ID
           /\ dom.CurrentTurn \in {dom.Player1ID, dom.Player2ID}
    /\ (chessOrigin = "initialize" /\ ~chess.GameEnded) =>
           /\ chess.WhitePlayer # chess.BlackPlayer
           /\ \A p \in UUIDs :
                  getPlayerColor(chess, p) = chess.CurrentTurn <=> p = ChessTurnPlayer(chess)

(***************************************************************************)
(* Claims about GetPossibleMoves                                           *)
(***************************************************************************)
InList(m, list) == \E i \in 1..Len(list) : list[i] = m
\* well-formed chess moves on the board, with the promotion tags clients send
BoardChessMoves == [From : OnBoard, To : OnBoard, Promotion : Promotions]

\* C22: for both engines GetPossibleMoves(state, player) returns exactly the moves
\* that ValidateMove(state, move, player) accepts: every returned move is accepted and
\* every accepted move is returned.
C22_PossibleMovesAreTheLegalMoves ==
    /\ DominoGame =>
           \A p \in UUIDs : \A m \in DominoMoves \cup {PassMove} :
               InList(m, DominoGetPossibleMoves(dom, p)) <=> DominoValidateMove(dom, m, p) = "ok"
    /\ ChessGame =>
           \A p \in UUIDs : \A m \in BoardChessMoves :
               m \in ChessGetPossibleMoves(chess, p) <=> ChessValidateMove(chess, m, p) = "ok"

(***************************************************************************)
(* Claims about the sweeps                                                 *)
(***************************************************************************)
\* the step is a cleanup sweep
CleanupStep == "cleanup" \in due /\ "cleanup" \notin due'
\* the step is the successful return of the JoinQueue call in slot s
JoinReturn(s) == calls[s].pc = "set" /\ calls'[s] = NoCallRec
\* a stored payload younger than the expiry, and one older than it
Young(r, u, t) == HasRequest(r, u, t) /\ t - r[u].JoinedAt < matchmakingTimeout
Old(r, u, t) == u \in DOMAIN r /\ t - r[u].JoinedAt > matchmakingTimeout

\* C23: a cleanup sweep evicts the requests older than the expiry, queue entry and
\* payload, and keeps those younger than it; and a request whose JoinQueue call
\* returns success is queued with its payload, also when a cleanup sweep or a matching
\* sweep ran while the call was in progress.
C23_CleanupEvictsOnlyExpired ==
    [][/\ CleanupStep =>
             \A g \in GameTypes : \A u \in Users :
                 /\ (ZScoreFound(zset, g, u) /\ Young(reqs, u, now)) =>
                        (ZScoreFound(zset', g, u) /\ HasRequest(reqs', u, now'))
                 /\ (ZScoreFound(zset, g, u) /\ Old(reqs, u, now)) =>
                        (~ZScoreFound(zset', g, u) /\ ~HasRequest(reqs', u, now'))
       /\ \A s \in Slots :
             JoinReturn(s) =>
                 /\ ZScoreFound(zset', calls[s].gameType, calls[s].user)
                 /\ HasRequest(reqs', calls[s].user, now')]_vars

\* the step is a matching sweep
SweepStep == "match" \in due /\ "match" \notin due'
\* the longer of the waits of two entries of queue g, at time t
LongerWait(z, g, a, b, t) == t - Min(ZScoreOf(z, g, a), ZScoreOf(z, g, b))

CastlingRights(color) ==
    IF color = "white" THEN {"WhiteKingSideCastle", "WhiteQueenSideCastle"}
    ELSE {"BlackKingSideCastle", "BlackQueenSideCastle"}
AllCastlingRights == CastlingRights("white") \cup CastlingRights("black")
\* the right that belongs to the rook whose home corner is the cell, if any
HomeCornerRight(color, pos) ==
    IF color = "black" /\ pos = Pos(0, 0) THEN {"BlackQueenSideCastle"}
    ELSE IF color = "black" /\ pos = Pos(0, 7) THEN {"BlackKingSideCastle"}
    ELSE IF color = "white" /\ pos = Pos(7, 0) THEN {"WhiteQueenSideCastle"}
    ELSE IF color = "white" /\ pos = Pos(7, 7) THEN {"WhiteKingSideCastle"}
    ELSE {}

\* C25: along applied moves a castling right only goes from true to false: a king
\* move clears both rights of the mover's colour, a rook move that starts on that
\* rook's home corner clears the corresponding right, and no move sets a right back
\* to true or clears a right of the other colour.
C25_CastlingRightsOnlyRevoked ==
    ChessGame =>
        \A p \in UUIDs : \A m \in BoardChessMoves :
            ChessValidateMove(chess, m, p) = "ok" =>
                LET after == ChessApplyMove(chess, m, p)
                    piece == chess.Board[Sq(m.From)]
                IN /\ \A r \in AllCastlingRights : after[r] => chess[r]
                   /\ piece.Type = "king" => \A r \in CastlingRights(piece.Color) : ~after[r]
                   /\ piece.Type = "rook" => \A r \in HomeCornerRight(piece.Color, m.From) : ~after[r]
                   /\ \A r \in AllCastlingRights \ CastlingRights(piece.Color) : after[r] = chess[r]

\* C26: after every accepted and applied chess move the colour to move is the
\* opposite one and the ply counter is one higher; in dominoes, after an accepted
\* play that does not empty the hand and after every accepted pass, the active player
\* is the other player.
C26_TurnPassesOn ==
    /\ ChessGame =>
           \A p \in UUIDs : \A m \in BoardChessMoves :
               ChessValidateMove(chess, m, p) = "ok" =>
                   LET after == ChessApplyMove(chess, m, p)
                   IN /\ after.CurrentTurn = (IF chess.CurrentTurn = "white" THEN "black" ELSE "white")
                      /\ after.MoveCount = chess.MoveCount + 1
    /\ DominoGame =>
           \A p \in UUIDs : \A m \in DominoMoves \cup {PassMove} :
               DominoValidateMove(dom, m, p) = "ok" =>
                   LET after == DominoApplyMove(dom, m, p)
                   IN (m.Pass \/ after.PlayerHands[p] # <<>>) =>
                          /\ after.CurrentTurn # p
                          /\ after.CurrentTurn \in {dom.Player1ID, dom.Player2ID}

(***************************************************************************)
(* Claims about domino placements                                          *)
(***************************************************************************)
InHand(state, p, tile) == \E i \in 1..Len(state.PlayerHands[p]) : SameTile(state.PlayerHands[p][i], tile)
\* the pip value exposed on a side of a non-empty board
ExposedPip(board, side) == IF side = "left" THEN board[1].Left ELSE board[Len(board)].Right
FitsSide(board, tile, side) ==
    /\ side \in {"left", "right"}
    /\ (tile.Left = ExposedPip(board, side) \/ tile.Right = ExposedPip(board, side))

\* C27: in a game that has not ended ValidateMove accepts a non-pass move of the
\* active player if and only if the tile, in either orientation, is in that player's
\* hand and the board is empty or one of the tile's pip values equals the exposed pip
\* value on the declared side.
C27_PlacementRule ==
    (DominoGame /\ ~dom.GameEnded) =>
        \A m \in DominoMoves :
            ~m.Pass =>
                (DominoValidateMove(dom, m, dom.CurrentTurn) = "ok"
                    <=> /\ InHand(dom, dom.CurrentTurn, m.Tile)
                        /\ (dom.Board = <<>> \/ FitsSide(dom.Board, m.Tile, m.Side)))

\* C27 witness: a tile held flipped against the exposed end has been accepted on
\* the right end of a non-empty board
W_C27_PlacedRight ==
    /\ DominoGame
    /\ domMoves > 0
    /\ ~domLast.move.Pass
    /\ domLast.move.Side = "right"
    /\ Len(dom.Board) >= 2
    /\ domLast.move.Tile.Left # dom.Board[Len(dom.Board) - 1].Right

\* the board is a chain: adjacent tiles show the same pip value where they touch
ProperChain(board) == \A i \in 1..(Len(board) - 1) : board[i].Right = board[i + 1].Left
\* hand minus exactly one tile, which is the given tile in some orientation
OneTileLess(before, after, tile) ==
    \E i \in 1..Len(before) : SameTile(before[i], tile) /\ after = RemoveAt(before, i)

\* C28: the board of every reachable domino state is a proper chain, and an applied
\* play removes exactly one tile, the played one, from the acting player's hand and
\* puts that tile, flipped if needed, at the declared end of the board, leaving the
\* rest of the board as it was.
C28_BoardIsChain ==
    DominoGame =>
        /\ ProperChain(dom.Board)
        /\ \A p \in UUIDs : \A m \in DominoMoves :
               (~m.Pass /\ DominoValidateMove(dom, m, p) = "ok") =>
                   LET after == DominoApplyMove(dom, m, p)
                       n == Len(after.Board)
                   IN /\ OneTileLess(dom.PlayerHands[p], after.PlayerHands[p], m.Tile)
                      /\ \A u \in UUIDs \ {p} : after.PlayerHands[u] = dom.PlayerHands[u]
                      /\ n = Len(dom.Board) + 1
                      /\ IF dom.Board = <<>> THEN SameTile(after.Board[1], m.Tile)
                         ELSE IF m.Side = "left"
                         THEN SameTile(after.Board[1], m.Tile) /\ Tail(after.Board) = dom.Board
                         ELSE SameTile(after.Board[n], m.Tile) /\ SubSeq(after.Board, 1, n - 1) = dom.Board
                      /\ ProperChain(after.Board)

\* C28 witness: the last play went on the left end and the tile was flipped for it
W_C28_FlippedOnLeft ==
    /\ DominoGame
    /\ domMoves > 0
    /\ ~domLast.move.Pass
    /\ domLast.move.Side = "left"
    /\ Len(dom.Board) >= 2
    /\ dom.Board[1] # domLast.move.Tile
    /\ SameTile(dom.Board[1], domLast.move.Tile)

(***************************************************************************)
(* Claims about pawn moves and the end of a chess game                     *)
(***************************************************************************)
\* the pawns of the colour to move
PawnCells(state) == {sq \in Squares : state.Board[sq] = Piece("pawn", state.CurrentTurn)}
PawnMove(sq, rows, cols) ==
    [From |-> Pos(sq[1], sq[2]), To |-> Pos(sq[1] + rows, sq[2] + cols), Promotion |-> ""]

\* C29: pawns move forward only. In a game that has not ended, for the side to
\* move, a one-square advance onto the empty cell directly ahead of a pawn, away from
\* its own back rank (white towards row 0, black towards row 7), is accepted by
\* ValidateMove, and every pawn move towards its own back rank is rejected.
C29_PawnsMoveForward ==
    (ChessGame /\ ~chess.GameEnded) =>
        \A p \in UUIDs : \A sq \in PawnCells(chess) :
            LET forward == PawnForward(chess.CurrentTurn)
                ahead == PawnMove(sq, forward, 0)
            IN getPlayerColor(chess, p) = chess.CurrentTurn =>
                  /\ (isValidPosition(ahead.To) /\ chess.Board[Sq(ahead.To)] = NoPiece) =>
                         ChessValidateMove(chess, ahead, p) = "ok"
                  /\ \A k \in 1..2 : \A dc \in -1..1 :
                         ChessValidateMove(chess, PawnMove(sq, -forward * k, dc), p) # "ok"

KingOn(board, color) == \E sq \in Squares : board[sq] = Piece("king", color)

\* C30: after an applied chess move the ended flag is set if and only if one colour
\* has no king on the board, and then the winner is the player of the colour whose
\* king is still there; while both kings are on the board the game is not ended and
\* has no winner.
C30_EndedIffKingMissing ==
    ChessGame =>
        \A p \in UUIDs : \A m \in BoardChessMoves :
            ChessValidateMove(chess, m, p) = "ok" =>
                LET after == ChessApplyMove(chess, m, p)
                    white == KingOn(after.Board, "white")
                    black == KingOn(after.Board, "black")
                IN /\ after.GameEnded <=> (~white \/ ~black)
                   /\ (white /\ ~black) => after.Winner = after.WhitePlayer
                   /\ (black /\ ~white) => after.Winner = after.BlackPlayer
                   /\ (white /\ black) => after.Winner = NoWinner

\* C30 witness: the last applied move took the white king; the game is ended and
\* black's player has won
W_C30_KingTaken ==
    /\ ChessGame
    /\ chess.MoveCount > 0
    /\ ~KingOn(chess.Board, "white")
    /\ KingOn(chess.Board, "black")
    /\ chess.GameEnded
    /\ chess.Winner = chess.BlackPlayer
    /\ chess.BlackPlayer # chess.WhitePlayer

(***************************************************************************)
(* Claims about ended games                                                *)
(***************************************************************************)
\* every chess move payload that decodes, with or without a promotion tag
AllChessMoves == AnyChessMoves \cup BoardChessMoves

\* in a state whose ended flag is set ValidateMove accepts nothing and GetGameStatus
\* reports the game as over, as a draw exactly when the state has no winner
EndedIsFinal ==
    /\ (DominoGame /\ dom.GameEnded) =>
           /\ \A p \in UUIDs : \A m \in DominoMoves \cup {PassMove} :
                  DominoValidateMove(dom, m, p) # "ok"
           /\ DominoGetGameStatus(dom).IsGameOver
           /\ DominoGetGameStatus(dom).IsDraw <=> (dom.Winner = NoWinner)
    /\ (ChessGame /\ chess.GameEnded) =>
           /\ \A p \in UUIDs : \A m \in AllChessMoves :
                  ChessValidateMove(chess, m, p) # "ok"
           /\ ChessGetGameStatus(chess).IsGameOver
           /\ ChessGetGameStatus(chess).IsDraw <=> (chess.Winner = NoWinner)
\* a step leaves a state whose ended flag is set as it is
EndedStaysPut ==
    /\ (DominoGame /\ dom.GameEnded) => dom' = dom
    /\ (ChessGame /\ chess.GameEnded) => chess' = chess

\* C31: ended is absorbing for both engines. In a state whose ended flag is set
\* ValidateMove accepts no move of any player, GetGameStatus reports the game as over
\* and as a draw exactly when the state has no winner; and a validate-then-apply step
\* never changes a state whose ended flag is set (board, hands, winner, active turn).
C31_EndedIsAbsorbing == []EndedIsFinal /\ [][EndedStaysPut]_vars

\* C31 witness: a domino game has ended blocked after a pass, with equal pip sums:
\* it is over, a draw, and it still names a player as the one to move
W_C31_EndedInDraw ==
    /\ DominoGame
    /\ domMoves > 0
    /\ domLast.move.Pass
    /\ dom.GameEnded
    /\ dom.Winner = NoWinner
    /\ DominoGetGameStatus(dom).IsDraw
    /\ DominoGetGameStatus(dom).NextPlayer \in {dom.Player1ID, dom.Player2ID}

(***************************************************************************)
(* Claims about the hub's buffers, rooms and notifications                 *)
(***************************************************************************)
\* C32: under every interleaving of the dispatch loop with the read pumps no session's
\* buffer is closed a second time and nothing is sent to a closed buffer: no hub
\* operation (broadcast, room broadcast, join, leave, unregister, heartbeat echo)
\* ends in a panic.
C32_NoCloseTwiceNoSendOnClosed == hub.pc # "panic"

\* C33: in every reachable hub state a session is in a room's member set if and only
\* if the room is in the session's own room set, and every member of every room is a
\* registered session whose buffer is open.
C33_MembershipConsistent ==
    \A c \in Clients : \A r \in RoomIDs :
        /\ MemberOf(hub, c, r) <=> r \in hub.cRooms[c]
        /\ MemberOf(hub, c, r) => (c \in hub.clients /\ ~hub.closed[c])

(***************************************************************************)
(* Claims about the matching sweep against leaving, failing removals and   *)
(* several game types                                                      *)
(***************************************************************************)
\* the step persists a game record
GameCreated == Len(games') = Len(games) + 1
\* the players of the newest game record
NewestPlayers(gs) == {gs[Len(gs)].Player1ID, gs[Len(gs)].Player2ID}
\* the last call to return was a LeaveQueue of user u for game type g, and it returned nil
HasLeft(u, g) ==
    mmLast.op = "LeaveQueue" /\ mmLast.err = "ok" /\ mmLast.user = u /\ mmLast.gameType = g

\* C34: a player whose LeaveQueue call for a game type has returned successfully and
\* who has not joined again (no call has returned since) is not a player of a game
\* the sweep of that game type's queue creates afterwards, also when the sweep was
\* running while the player left.
C34_NoMatchAfterLeave ==
    [][GameCreated =>
          \A u \in Users : HasLeft(u, Head(sweep.order)) => u \notin NewestPlayers(games')]_vars

\* user u is a player of the game record
PlaysIn(game, u) == u \in {game.Player1ID, game.Player2ID}
\* the stored request was already there when an earlier game with its user was created
UsedBefore(request, gs) ==
    \E k \in 1..Len(gs) : PlaysIn(gs[k], request.UserID) /\ gs[k].StartedAt > request.JoinedAt

\* C35: each accepted JoinQueue request leads to at most one created game: a sweep
\* does not persist a game for a request that was stored before an earlier game with
\* the same player was created, across any number of ticks and also when a removal
\* from the store failed after that earlier game had been persisted.
C35_OneGamePerRequest ==
    [][GameCreated => (~UsedBefore(sweep.player1, games) /\ ~UsedBefore(sweep.player2, games))]_vars

\* C36: a game created by the sweep of the queue of game type g is a game of type g,
\* and both its players were queued for g when the sweep ran, also when a player
\* is in the queues of more than one game type.
C36_MatchKeepsGameType ==
    [][SweepStep =>
          \A g \in GameTypes : \A k \in 1..Len(tickMatches'[g].games) :
              /\ tickMatches'[g].games[k].Type = g
              /\ ZScoreFound(zset, g, tickMatches'[g].games[k].Player1ID)
              /\ ZScoreFound(zset, g, tickMatches'[g].games[k].Player2ID)]_vars

(***************************************************************************)
(* Claims about the game record of a new match                             *)
(***************************************************************************)
\* the participants the engine state names, and the player it takes to be on turn
StateParticipants(game, st) ==
    IF game.Type = "dominoes" THEN {st.Player1ID, st.Player2ID} ELSE {st.WhitePlayer, st.BlackPlayer}
StateTurnPlayer(game, st) ==
    IF game.Type = "dominoes" THEN st.CurrentTurn ELSE ChessTurnPlayer(st)
\* ValidateMove of the game's engine accepts some move of player p in state st
SomeMoveAccepted(game, st, p) ==
    IF game.Type = "dominoes"
    THEN \E m \in DominoMoves \cup {PassMove} : DominoValidateMove(st, m, p) = "ok"
    ELSE \E m \in BoardChessMoves : ChessValidateMove(st, m, p) = "ok"

\* C37: in every game record persisted for a new match the engine state's
\* participants are the two matched players, the record's current-turn player is the
\* player on turn according to the engine state, and ValidateMove accepts some move
\* of that player in that state.
C37_RecordAgreesWithEngineState ==
    \A k \in 1..Len(games) : \A st \in InitialStates(games[k].Type) :
        /\ StateParticipants(games[k], st) = {games[k].Player1ID, games[k].Player2ID}
        /\ StateTurnPlayer(games[k], st) = games[k].CurrentTurn
        /\ SomeMoveAccepted(games[k], st, games[k].CurrentTurn)

(***************************************************************************)
(* Claims about the end of a domino game                                   *)
(***************************************************************************)
\* the tiles held in all hands together
RECURSIVE TilesHeldUpTo(_, _)
TilesHeldUpTo(state, u) ==
    IF u < 0 THEN 0 ELSE Len(state.PlayerHands[u]) + TilesHeldUpTo(state, u - 1)
\* a measure that every accepted move lowers: two for each tile held, one more while
\* the player to move is stuck and may pass
DominoRank(state) ==
    2 * TilesHeldUpTo(state, NumIDs) + (IF canPlayerPlay(state, state.CurrentTurn) THEN 0 ELSE 1)
\* the player to move in a game that goes on has a move that ValidateMove accepts,
\* and right after a pass that did not end the game nobody's pass is accepted
MoveButNoSecondPass ==
    ~dom.GameEnded =>
        /\ \E m \in DominoMoves \cup {PassMove} : DominoValidateMove(dom, m, dom.CurrentTurn) = "ok"
        /\ (domMoves > 0 /\ domLast.move.Pass) =>
               \A p \in UUIDs : DominoValidateMove(dom, PassMove, p) # "ok"
\* an accepted move ends the game or lowers the measure
RankGoesDown ==
    domMoves' = domMoves + 1 => (dom'.GameEnded \/ DominoRank(dom') < DominoRank(dom))
\* the game is over, or the model's bound on the moves of a game from Initialize is reached
PlayedOut == dom.GameEnded \/ (domOrigin = "initialize" /\ domMoves = MaxDomMoves)

\* C38: every domino game terminates. In every reachable state of a game that has
\* not ended the active player has a move that ValidateMove accepts; after a pass that
\* did not end the game no second pass is accepted; every accepted move ends the game
\* or lowers a measure that cannot go below zero; and a game in which accepted moves
\* keep being submitted reaches an ended state.
C38_DominoGameTerminates ==
    []MoveButNoSecondPass /\ [][RankGoesDown]_vars /\ <>PlayedOut

\* C38 witness: a player has passed, the game goes on, and the other player, who
\* must place a tile now, still has a legal placement
W_C38_PassedAndGoesOn ==
    /\ DominoGame
    /\ domMoves > 0
    /\ domLast.move.Pass
    /\ ~dom.GameEnded
    /\ dom.CurrentTurn # domLast.player
    /\ HasLegalPlacement(dom, dom.CurrentTurn)

(***************************************************************************)
(* Claims about room notifications                                         *)
(***************************************************************************)
\* the step puts a player_joined, or a player_left, about session c and room r into
\* some session's buffer
JoinedDelivered(r, c) ==
    \E m \in Clients :
        /\ Len(hub'.send[m]) > Len(hub.send[m])
        /\ hub'.send[m][Len(hub'.send[m])] = PlayerJoined(r, c)
LeftDelivered(r, c) == \E m \in Clients : hub'.left[<<m, r, c>>] > hub.left[<<m, r, c>>]

\* C39: a player_left notification about a session is delivered to a room only in a
\* step before which the session was a member of that room, and a player_joined
\* notification only in a step before which it was not: LeaveRoom by a non-member and
\* a repeated JoinRoom by a member notify nobody.
C39_NotificationsFollowMembership ==
    [][\A c \in Clients : \A r \in RoomIDs :
           /\ LeftDelivered(r, c) => MemberOf(hub, c, r)
           /\ JoinedDelivered(r, c) => ~MemberOf(hub, c, r)]_vars

(***************************************************************************)
(* Claims about a player queued for two game types                          *)
(***************************************************************************)
\* the step is a JoinQueue or LeaveQueue call of user u for game type g
QueueCallOf(u, g) ==
    /\ handled' = handled + 1
    /\ mmLast'.op \in {"JoinQueue", "LeaveQueue"}
    /\ mmLast'.user = u
    /\ mmLast'.gameType = g
\* user u is queued for game type g and the stored request is the one for g
QueuedWithRequest(z, r, u, g, t) ==
    ZScoreFound(z, g, u) /\ HasRequest(r, u, t) /\ r[u].GameType = g

\* C40: a JoinQueue or LeaveQueue call for game type A leaves the caller's queue entry
\* and stored request for another game type B as they were.
C40_OtherGameTypeUntouched ==
    [][\A u \in Users : \A a \in GameTypes : \A b \in GameTypes \ {a} :
           (QueueCallOf(u, a) /\ QueuedWithRequest(zset, reqs, u, b, now))
               => (zset'[b] = zset[b] /\ QueuedWithRequest(zset', reqs', u, b, now')
                   /\ reqs'[u] = reqs[u])]_vars

====
